----------------------------- MODULE AnchoredLedger -----------------------------
(***************************************************************************)
(* What the checkpoint chain promises to those who only read it: an        *)
(* append-only ledger with one anchor per entry.  Nothing is ever appended *)
(* after an entry that has no anchor, so at most the last one is without;  *)
(* an entry and its anchor, once there, stay as they are.                  *)
(***************************************************************************)
EXTENDS Naturals, Sequences

VARIABLES ledger,   \* the entries, in order
          anchor    \* the anchor of each, or NoAnchor

NoAnchor == 0

HeadIsAnchored == ledger = <<>> \/ anchor[Len(ledger)] # NoAnchor

Init == ledger = <<>> /\ anchor = <<>>

\* One entry is appended to an empty ledger or behind an anchored entry.
Extend ==
    /\ HeadIsAnchored
    /\ Len(ledger') = Len(ledger) + 1
    /\ \A i \in DOMAIN ledger : ledger'[i] = ledger[i]
    /\ anchor' = Append(anchor, NoAnchor)

\* The last entry gets the anchor it was without.
AnchorHead ==
    /\ ~HeadIsAnchored
    /\ anchor'[Len(ledger)] # NoAnchor
    /\ anchor' = [anchor EXCEPT ![Len(ledger)] = anchor'[Len(ledger)]]
    /\ UNCHANGED ledger

Next == Extend \/ AnchorHead

Spec == Init /\ [][Next]_<<ledger, anchor>>

=============================================================================
