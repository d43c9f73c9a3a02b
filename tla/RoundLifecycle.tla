--------------------------- MODULE RoundLifecycle ---------------------------
(***************************************************************************)
(* What the consensus engine promises about one round key, from the        *)
(* specification's state machine, with nothing of how it is computed:      *)
(*                                                                         *)
(*   Open -> RevealWindowOpen -> {Completed | Disputed}                    *)
(*                                 Disputed -> ManuallyResolved            *)
(*                                                                         *)
(* Participants join while the round is open, and the commit that takes    *)
(* them over the majority schedules the reveal window.  Completion         *)
(* archives the answer and purges the participants; a dispute keeps them   *)
(* for manual resolution, which purges them without archiving.  The        *)
(* archive is written once and never changed.  A participant found to have *)
(* revealed a wrong hash is struck off while its round still holds it.     *)
(*                                                                         *)
(* Rounds are independent, and one block may move several of them: a step  *)
(* moves each round by one of its own transitions or leaves it alone.      *)
(***************************************************************************)
CONSTANTS
    Rounds,     \* round keys
    Accounts,   \* possible participants
    Answers,    \* possible archived answers
    None        \* no archived answer

VARIABLES
    phase,          \* phase of each round
    participants,   \* accounts holding a commitment in each round
    archive         \* archived answer of each round, or None

avars == <<phase, participants, archive>>

Phases == {"Open", "RevealWindowOpen", "Completed", "Disputed", "ManuallyResolved"}

\* Phases in which the round's commitments are still stored.
Holding == {"Open", "RevealWindowOpen", "Disputed"}

Init ==
    /\ phase = [r \in Rounds |-> "Open"]
    /\ participants = [r \in Rounds |-> {}]
    /\ archive = [r \in Rounds |-> None]

(* Each transition relates one round's phase ph, participants pa and      *)
(* archive ar to their next values ph2, pa2 and ar2.                       *)

(* A new participant commits; the window may be scheduled with it.        *)
Join(ph, ph2, pa, pa2, ar, ar2) ==
    /\ ph \in {"Open", "RevealWindowOpen"}
    /\ \E a \in Accounts \ pa : pa2 = pa \cup {a}
    /\ ph2 \in {ph, "RevealWindowOpen"}
    /\ ar2 = ar

(* A participant is struck off after a wrong reveal.                       *)
StrikeOff(ph, ph2, pa, pa2, ar, ar2) ==
    /\ ph \in Holding
    /\ \E a \in pa : pa2 = pa \ {a}
    /\ ph2 = ph
    /\ ar2 = ar

(* The window expires with consensus: answer archived, storage purged.    *)
Complete(ph, ph2, pa, pa2, ar, ar2) ==
    /\ ph = "RevealWindowOpen"
    /\ ph2 = "Completed"
    /\ pa2 = {}
    /\ ar2 \in Answers

(* The window expires without consensus: everything kept.                 *)
Dispute(ph, ph2, pa, pa2, ar, ar2) ==
    /\ ph = "RevealWindowOpen"
    /\ ph2 = "Disputed"
    /\ pa2 = pa
    /\ ar2 = ar

(* Forced resolution: storage purged, nothing archived.                   *)
Resolve(ph, ph2, pa, pa2, ar, ar2) ==
    /\ ph = "Disputed"
    /\ ph2 = "ManuallyResolved"
    /\ pa2 = {}
    /\ ar2 = ar

Unchanged(ph, ph2, pa, pa2, ar, ar2) == ph2 = ph /\ pa2 = pa /\ ar2 = ar

RoundMoves(ph, ph2, pa, pa2, ar, ar2) ==
    \/ Unchanged(ph, ph2, pa, pa2, ar, ar2)
    \/ Join(ph, ph2, pa, pa2, ar, ar2)
    \/ StrikeOff(ph, ph2, pa, pa2, ar, ar2)
    \/ Complete(ph, ph2, pa, pa2, ar, ar2)
    \/ Dispute(ph, ph2, pa, pa2, ar, ar2)
    \/ Resolve(ph, ph2, pa, pa2, ar, ar2)

(* A step moves each round by one of its transitions or leaves it alone;  *)
(* the three functions are read once per step.                            *)
NextFrom(ph, ph2, pa, pa2, ar, ar2) ==
    /\ ph2 \in [Rounds -> Phases]
    /\ pa2 \in [Rounds -> SUBSET Accounts]
    /\ ar2 \in [Rounds -> Answers \cup {None}]
    /\ \A r \in Rounds : RoundMoves(ph[r], ph2[r], pa[r], pa2[r], ar[r], ar2[r])

Next == NextFrom(phase, phase', participants, participants', archive, archive')

Spec == Init /\ [][Next]_avars
====
