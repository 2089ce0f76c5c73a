--------------------------- MODULE RecordMirror ---------------------------
(***************************************************************************)
(* The recovery copies of moves (website/src/swings/orchestrator/remote.ts *)
(* and store.ts, and the server's website/api/_swingsRecords.ts).  A       *)
(* browser keeps the working record; when the user asked for it, every     *)
(* version saved is also uploaded, one after another.  Any browser that is *)
(* given the record's id may bring the copy back.                          *)
(*                                                                         *)
(* What a record holds is the list of the browsers that wrote its          *)
(* versions: its length is the version, and two records of one id that     *)
(* went different ways differ.  A request may be lost, may be given up by  *)
(* the page and served later, and outlives the page that made it.          *)
(***************************************************************************)
EXTENDS Integers, SequencesExt

CONSTANTS
  Tabs,         \* the pages: tabs of the browsers
  Browsers, Records,
  browser,      \* browser[p]: whose storage the page p uses
  MAX_TOKENS,   \* 200
  MaxVersion,   \* bound: the versions of a record
  MaxTurns,     \* bound: pages opened again, and turns of the switch
  MaxRestores   \* bound: the restores asked for

ASSUME TabsAssumption == browser \in [Tabs -> Browsers]
ASSUME NumbersAssumption == MAX_TOKENS \in Nat \ {0} /\ MaxVersion \in Nat \ {0} /\ {MaxTurns, MaxRestores} \subseteq Nat

VARIABLES
  local,      \* local[b][r]: the record in browser b's storage, <<>> for none
  kept,       \* kept[b]: the records browser b's storage has a write token for, in order
  copyOn,     \* copyOn[b]: the user wants copies
  tokens,     \* tokens[p]: the records page p has a write token for, in order
  queue,      \* queue[p][r]: the uploads of r, the first of them under way or next
  turn,       \* turn[p][r]: how far that first one is
  puts,       \* the requests on their way to the server
  copy,       \* copy[r]: the server's row, <<>> for none
  pull,       \* pull[p]: the restore under way, or NoPull
  turns, restores,
  smooth      \* smooth[r]: the page that made every version of r, all of them uploaded and none of the
              \* uploads lost, or Nobody; for the properties alone

mirrorVars == <<local, kept, copyOn, tokens, queue, turn, puts, copy, pull, turns, restores, smooth>>

Nobody == "nobody"
Unserved == <<"unserved">>
NoPull == [record |-> Nobody, seen |-> 0, remote |-> <<>>]

ASSUME NamesAssumption == Nobody \notin Tabs \cup Records

Lineage == SeqOf(Browsers, MaxVersion)
Upload == [body : Lineage \ {<<>>}, expected : 0..(MaxVersion - 1)]
Put == [page : Tabs \cup {Nobody}, record : Records, upload : Upload, token : BOOLEAN]
Results == {"created", "saved", "conflict", "unavailable"}
Pull == [record : Records, seen : 0..MaxVersion, remote : Lineage \cup {Unserved}] \cup {NoPull}

-----------------------------------------------------------------------------
(* push: uploads of one record go one after another.                       *)

\* Mutant: of the uploads that wait only the newest is kept.
Coalesced(q, upload) == IF Len(q) > 1 THEN <<Head(q), upload>> ELSE Append(q, upload)

Queued(q, upload) == Append(q, upload)

\* Mutant: the version the server should hold after the upload, not before it.
VersionItself(body) == Len(body)

Expected(body) == Len(body) - 1

\* mirroredExecutionStore: what was saved is sent as well, when that is switched on.
Mirrored(p, r, body) ==
  queue' = IF copyOn[browser[p]]
             THEN [queue EXCEPT ![p][r] = Queued(@, [body |-> body, expected |-> Expected(body)])]
             ELSE queue

Saved(p, r, body) ==
  /\ local' = [local EXCEPT ![browser[p]][r] = body]
  /\ Mirrored(p, r, body)
  /\ UNCHANGED <<kept, copyOn, tokens, turn, puts, copy, pull, turns, restores>>

\* The id is a fresh random one.
create(p, r) ==
  /\ \A b \in Browsers : local[b][r] = <<>>
  /\ Saved(p, r, <<browser[p]>>)
  /\ smooth' = [smooth EXCEPT ![r] = IF copyOn[browser[p]] THEN p ELSE Nobody]

\* The version was read before and is compared as the record is written: a page that is late
\* is refused and nothing changes.
update(p, r) ==
  LET b == browser[p] IN
  /\ local[b][r] # <<>> /\ Len(local[b][r]) < MaxVersion
  /\ Saved(p, r, Append(local[b][r], b))
  /\ smooth' = [smooth EXCEPT ![r] =
       IF b # Head(local[b][r]) \/ (copyOn[b] /\ @ = p) THEN @ ELSE Nobody]

-----------------------------------------------------------------------------
(* send, and the server's answer.                                          *)

Send(p, r) ==
  /\ queue[p][r] # <<>> /\ turn[p][r] = "idle"
  /\ LET upload == Head(queue[p][r]) IN
       puts' = puts \cup {[page |-> p, record |-> r, upload |-> upload,
                           token |-> upload.expected > 0 /\ Contains(tokens[p], r)]}
  /\ turn' = [turn EXCEPT ![p][r] = "out"]
  /\ UNCHANGED <<local, kept, copyOn, tokens, queue, copy, pull, turns, restores, smooth>>

\* Mutant: whoever knows the id may write.
AnyoneMayWrite(m) == TRUE

canWrite(m) == m.token

Matches(m) == Len(copy[m.record]) = m.upload.expected

\* What the server makes of a PUT: a row inserted, a row of the expected version replaced, or none.
Applied(m) ==
  CASE m.upload.expected = 0 /\ copy[m.record] = <<>> -> "created"
    [] m.upload.expected > 0 /\ ~canWrite(m) -> "unavailable"
    [] m.upload.expected > 0 /\ canWrite(m) /\ Matches(m) -> "saved"
    [] OTHER -> "conflict"

Serve(m) ==
  /\ m \in puts /\ puts' = puts \ {m}
  /\ copy' = IF Applied(m) \in {"created", "saved"} THEN [copy EXCEPT ![m.record] = m.upload.body] ELSE copy
  /\ turn' = IF m.page = Nobody THEN turn ELSE [turn EXCEPT ![m.page][m.record] = Applied(m)]
  /\ UNCHANGED <<local, kept, copyOn, tokens, queue, pull, turns, restores, smooth>>

Adrift(m) == [m EXCEPT !.page = Nobody]

\* The page sees its request fail; the request itself may be lost, refused, or yet served.
GiveUp(p, r) ==
  /\ turn[p][r] = "out" /\ turn' = [turn EXCEPT ![p][r] = "unavailable"]
  /\ puts' = {IF m.page = p /\ m.record = r THEN Adrift(m) ELSE m : m \in puts}
  /\ smooth' = [smooth EXCEPT ![r] = IF @ = p THEN Nobody ELSE @]
  /\ UNCHANGED <<local, kept, copyOn, tokens, queue, copy, pull, turns, restores>>

\* The page writes all the tokens it knows over what the storage holds; when the storage refuses,
\* the token is kept for this page only.
remember(p, r) ==
  LET known == IF Contains(tokens[p], r) THEN tokens[p] ELSE Append(tokens[p], r)
      cut == IF Len(known) <= MAX_TOKENS THEN known ELSE SubSeq(known, Len(known) - MAX_TOKENS + 1, Len(known))
  IN
  /\ tokens' = [tokens EXCEPT ![p] = known]
  /\ kept' \in {kept, [kept EXCEPT ![browser[p]] = cut]}

\* Mutant: what failed is tried again, and what waits behind it waits on.
RetriedFirst(q, result) == IF result = "unavailable" THEN q ELSE Tail(q)

After(q, result) == Tail(q)

HearAnswer(p, r) ==
  /\ turn[p][r] \in Results
  /\ IF turn[p][r] = "created" THEN remember(p, r) ELSE UNCHANGED <<tokens, kept>>
  /\ queue' = [queue EXCEPT ![p][r] = After(@, turn[p][r])]
  /\ turn' = [turn EXCEPT ![p][r] = "idle"]
  /\ UNCHANGED <<local, copyOn, puts, copy, pull, turns, restores, smooth>>

\* The head of the answer to a creation arrives and its body does not: saved, without a token.
BodyLost(p, r) ==
  /\ turn[p][r] = "created" /\ turn' = [turn EXCEPT ![p][r] = "saved"]
  /\ smooth' = [smooth EXCEPT ![r] = IF @ = p THEN Nobody ELSE @]
  /\ UNCHANGED <<local, kept, copyOn, tokens, queue, puts, copy, pull, turns, restores>>

-----------------------------------------------------------------------------
(* restoreFromCode                                                         *)

AskCopy(p, r) ==
  /\ pull[p] = NoPull /\ \E b \in Browsers : local[b][r] # <<>>
  /\ restores < MaxRestores /\ restores' = restores + 1
  /\ pull' = [pull EXCEPT ![p] = [record |-> r, seen |-> Len(local[browser[p]][r]), remote |-> Unserved]]
  /\ UNCHANGED <<local, kept, copyOn, tokens, queue, turn, puts, copy, turns, smooth>>

\* The row, or nothing when the server cannot be reached.
ServeCopy(p) ==
  /\ pull[p] # NoPull /\ pull[p].remote = Unserved
  /\ \E answer \in {copy[pull[p].record], <<>>} : pull' = [pull EXCEPT ![p].remote = answer]
  /\ UNCHANGED <<local, kept, copyOn, tokens, queue, turn, puts, copy, turns, restores, smooth>>

\* Mutant: the storage is not looked at again when the copy has come.
LooksOnce(p) == pull[p].seen < Len(pull[p].remote)

\* The copy is newer than the record that was there when it was asked for, and than the one now there.
Newer(p) ==
  /\ pull[p].seen < Len(pull[p].remote)
  /\ Len(local[browser[p]][pull[p].record]) < Len(pull[p].remote)

\* With no copy, no answer or no newer copy nothing is written.
restore(p) ==
  /\ pull[p] # NoPull /\ pull[p].remote # Unserved
  /\ pull' = [pull EXCEPT ![p] = NoPull]
  /\ local' = IF Newer(p) THEN [local EXCEPT ![browser[p]][pull[p].record] = pull[p].remote] ELSE local
  /\ UNCHANGED <<kept, copyOn, tokens, queue, turn, puts, copy, turns, restores, smooth>>

-----------------------------------------------------------------------------

setCopy(b) ==
  /\ turns < MaxTurns /\ turns' = turns + 1
  /\ copyOn' = [copyOn EXCEPT ![b] = ~@]
  /\ UNCHANGED <<local, kept, tokens, queue, turn, puts, copy, pull, restores, smooth>>

\* A page is closed, with what it had yet to send, and opened again.
Reload(p) ==
  /\ turns < MaxTurns /\ turns' = turns + 1
  /\ tokens' = [tokens EXCEPT ![p] = kept[browser[p]]]
  /\ queue' = [queue EXCEPT ![p] = [r \in Records |-> <<>>]]
  /\ turn' = [turn EXCEPT ![p] = [r \in Records |-> "idle"]]
  /\ pull' = [pull EXCEPT ![p] = NoPull]
  /\ puts' = {IF m.page = p THEN Adrift(m) ELSE m : m \in puts}
  /\ smooth' = [r \in Records |-> IF smooth[r] = p THEN Nobody ELSE smooth[r]]
  /\ UNCHANGED <<local, kept, copyOn, copy, restores>>

MirrorInit ==
  /\ local = [b \in Browsers |-> [r \in Records |-> <<>>]] /\ kept = [b \in Browsers |-> <<>>]
  /\ copyOn = [b \in Browsers |-> TRUE] /\ tokens = [p \in Tabs |-> <<>>]
  /\ queue = [p \in Tabs |-> [r \in Records |-> <<>>]]
  /\ turn = [p \in Tabs |-> [r \in Records |-> "idle"]]
  /\ puts = {} /\ copy = [r \in Records |-> <<>>]
  /\ pull = [p \in Tabs |-> NoPull] /\ turns = 0 /\ restores = 0
  /\ smooth = [r \in Records |-> Nobody]

MirrorNext ==
  \/ \E p \in Tabs, r \in Records :
       \/ create(p, r) \/ update(p, r) \/ Send(p, r) \/ GiveUp(p, r)
       \/ HearAnswer(p, r) \/ BodyLost(p, r) \/ AskCopy(p, r)
  \/ \E m \in puts : Serve(m)
  \/ \E p \in Tabs : ServeCopy(p) \/ restore(p) \/ Reload(p)
  \/ \E b \in Browsers : setCopy(b)

\* A fetch ends, one way or another, and what its end starts runs.  Of these steps of one
\* queue one is enabled at a time.
Uploading(p, r) ==
  Send(p, r) \/ GiveUp(p, r) \/ HearAnswer(p, r) \/ \E m \in puts : m.page = p /\ m.record = r /\ Serve(m)

Fairness == \A p \in Tabs, r \in Records : WF_mirrorVars(Uploading(p, r))

MirrorSpec == MirrorInit /\ [][MirrorNext]_mirrorVars /\ Fairness

-----------------------------------------------------------------------------
(* Properties                                                              *)

\* Every variable stays within its type.
MirrorTypeOK ==
  /\ local \in [Browsers -> [Records -> Lineage]] /\ copy \in [Records -> Lineage]
  /\ kept \in [Browsers -> SeqOf(Records, MAX_TOKENS)] /\ tokens \in [Tabs -> Seq(Records)]
  /\ copyOn \in [Browsers -> BOOLEAN] /\ queue \in [Tabs -> [Records -> Seq(Upload)]]
  /\ turn \in [Tabs -> [Records -> {"idle", "out"} \cup Results]] /\ puts \subseteq Put
  /\ pull \in [Tabs -> Pull] /\ turns \in 0..MaxTurns /\ restores \in 0..MaxRestores
  /\ smooth \in [Records -> Tabs \cup {Nobody}]

\* The copy is only ever replaced by its next version, as the browser that made the move
\* once held it, whatever browsers that brought the copy back wrote since, and however late
\* an upload is served ("only the browser that created a record can change it", "a stale
\* write is refused").
CopyIsTheCreators ==
  [][\A r \in Records : copy'[r] # copy[r] =>
       /\ Len(copy'[r]) = Len(copy[r]) + 1 /\ IsPrefix(copy[r], copy'[r])
       /\ IsPrefix(copy'[r], local'[Head(copy'[r])][r])]_mirrorVars

\* Bringing a copy back never takes a browser's record back, though the record may be written
\* while the copy is on its way ("Never overwrites a newer local copy").
NewerIsKept ==
  [][\A b \in Browsers, r \in Records : local'[b][r] # local[b][r] =>
       Len(local'[b][r]) > Len(local[b][r])]_mirrorVars

\* When one page made every version and every upload was heard, the copy is the record as soon
\* as nothing waits: no upload overtakes the creation, and none is left out.
UnbrokenIsSaved ==
  \A r \in Records : LET p == smooth[r] IN
    p # Nobody /\ queue[p][r] = <<>> => copy[r] = local[browser[p]][r]

\* However uploads end, those that wait behind them get their turn.
UploadsEnd == \A p \in Tabs, r \in Records : queue[p][r] # <<>> ~> queue[p][r] = <<>>
=============================================================================
