----------------------------- MODULE MoveScreen -----------------------------
(***************************************************************************)
(* The orchestrator called by the "Move USDC" screen                       *)
(* (website/src/scripts/walletCrossChain.ts, with settlement/safety.ts):   *)
(* the press of "Start", from the check of the saved moves to create.      *)
(*                                                                         *)
(* "Start" is never disabled: several presses may be on their way on one   *)
(* page, each with an execution of its own.                                *)
(***************************************************************************)
EXTENDS Orchestrator

VARIABLES
  cleared,  \* cleared[p]: the moves assessSettlement let through on page p, not yet created
  together  \* history: the pairs of moves let through while neither was created

screenVars == <<vars, cleared, together>>

ScreenInit ==
  /\ Init
  /\ cleared = [p \in Pages |-> {}]
  /\ together = {}

AllCleared == UNION {cleared[p] : p \in Pages}

\* The move joins those on their way; an abandoned press leaves nothing behind.
LetThrough(p, x) ==
  /\ cleared' = [cleared EXCEPT ![p] = @ \cup {x}]
  /\ together' = {pair \in together : x \notin pair} \cup {{x, y} : y \in AllCleared}
  /\ UNCHANGED vars

\* Mutant: the unfinished moves are not asked about.
AssessAlone(p, x) ==
  /\ rec[x].state = "none" /\ x \notin AllCleared
  /\ LetThrough(p, x)

\* assessSettlement: a move is blocked while the same move is unfinished.
\* The user then answers the confirmations; the list is not read again.
Assess(p, x) ==
  /\ rec[x].state = "none" /\ x \notin AllCleared
  /\ \A y \in Execs : rec[y].state \in Final \cup {"none"}
  /\ LetThrough(p, x)

\* The user declines a confirmation, or the quote is gone.
Abandon(p, x) ==
  /\ x \in cleared[p]
  /\ cleared' = [cleared EXCEPT ![p] = @ \ {x}]
  /\ UNCHANGED <<vars, together>>

PressStart(p, x) ==
  /\ x \in cleared[p]
  /\ Create(p, x)
  /\ cleared' = [cleared EXCEPT ![p] = @ \ {x}]
  /\ UNCHANGED together

ScreenNext ==
  \/ \E p \in Pages, x \in Execs :
       \/ Assess(p, x) \/ Abandon(p, x) \/ PressStart(p, x)
       \/ (ScreenCall(p, x) \/ Resumes(p, x)) /\ UNCHANGED <<cleared, together>>
  \/ \E p \in Pages : Crash(p) /\ cleared' = [cleared EXCEPT ![p] = {}] /\ UNCHANGED together
  \/ Environment /\ crashes' = crashes /\ UNCHANGED <<cleared, together>>

ScreenSpec == ScreenInit /\ [][ScreenNext]_screenVars

-----------------------------------------------------------------------------
(* Properties                                                              *)

\* What the screen tells the user of a failed move ("No funds were moved by this
\* step", "Still in your account") is true: no burn of it is done or on its way.
FailedSafeMeansFundsStayed ==
  \A x \in Execs : rec[x].failure = "fundsSafe" => Live(x, "burn") = {}

\* Aretia's fee is not charged a second time for a move whose burn did not confirm.
FeeChargedOnce ==
  \A x, y \in Execs, m, n \in 1..MaxSends :
    /\ chain[x]["fee"][m] = "confirmed"
    /\ chain[y]["fee"][n] = "confirmed"
    /\ \A z \in Execs : ~Burned(z)
    => x = y /\ m = n

Open(x) == rec[x].state \notin Final \cup {"none"}

\* The same move is open once (safety.ts: "The same move is already in progress").
OneOpenMove == \A x, y \in Execs : Open(x) /\ Open(y) => x = y

\* What the check does promise: the same move is open twice only if two presses of
\* "Start" were on their way at once, both past the check and neither yet created.
OpenOnlyTogether ==
  \A x, y \in Execs : Open(x) /\ Open(y) /\ x # y => {x, y} \in together

\* A tab that remembers the fee of a move sends it again only for a press that was on
\* its way with another one, even in a call begun before the fee was remembered.
RememberedFeeNotSentAgain ==
  [][\A x \in Execs, n \in 1..MaxSends :
       chain[x]["fee"][n] = "unsent" /\ chain'[x]["fee"][n] # "unsent" =>
         \E p \in Pages :
           /\ op[p][x].pc = "asking"
           /\ ledger[p] => \E y \in Execs \ {x} : {x, y} \in together]_screenVars
=============================================================================
