------------------------------ MODULE Mailbox ------------------------------
(***************************************************************************)
(* What the agent promises a notification producer: a mailbox that hands   *)
(* every message over at least once.  A message that arrived stays         *)
(* waiting until it is settled (handed to the model, or discarded by       *)
(* rule); it leaves the mailbox only when settled, and only a message that *)
(* waits is ever handed over.                                              *)
(***************************************************************************)
CONSTANT Message

VARIABLES
    arrived,   \* every message ever dropped
    waiting,   \* the ones still in the mailbox
    settled    \* the ones handed over or discarded

mailbox == <<arrived, waiting, settled>>

MInit == arrived = {} /\ waiting = {} /\ settled = {}

\* Any mix of arrivals, settlements and removals that keeps the promise.
MNext ==
    /\ arrived \subseteq arrived' /\ arrived' \subseteq Message
    /\ arrived' \ arrived \subseteq waiting' \cup settled'
    /\ waiting' \ waiting \subseteq arrived' \ arrived
    /\ settled \subseteq settled'
    /\ settled' \ settled \subseteq waiting \cup (arrived' \ arrived)
    /\ waiting \ waiting' \subseteq settled'

MSpec == MInit /\ [][MNext]_mailbox

\* No message is lost: what arrived waits or is settled.
NoMessageLost == arrived \subseteq waiting \cup settled
=============================================================================
