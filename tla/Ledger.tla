------------------------------- MODULE Ledger -------------------------------
(* What an audited run promises: one harness at a time, and a ledger with    *)
(* one record per round that says how the harness got from one value to the  *)
(* next.  A record without accepted proposals leaves the harness as it was.  *)
EXTENDS Naturals, Sequences

VARIABLES
    current,    \* the harness the run stands at
    ledger      \* the lineage, one record per completed round

Init == ledger = <<>>

Record ==
    /\ Len(ledger') = Len(ledger) + 1
    /\ SubSeq(ledger', 1, Len(ledger)) = ledger
    /\ LET r == ledger'[Len(ledger')]
       IN  /\ r.before = current
           /\ r.after = current'
           /\ r.ids = <<>> => r.after = r.before

Spec == Init /\ [][Record]_<<current, ledger>>
=============================================================================
