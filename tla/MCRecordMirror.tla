--------------------------- MODULE MCRecordMirror ---------------------------
EXTENDS RecordMirror, TLC

CONSTANTS p1, p2, p3, b1, b2

\* Two tabs of one browser, and another browser.
MCbrowser == (p1 :> b1) @@ (p2 :> b1) @@ (p3 :> b2)
=============================================================================
