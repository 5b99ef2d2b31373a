----------------------------- MODULE StepChannel -----------------------------
(***************************************************************************)
(* What the bridge promises to a connection that is registered: every event *)
(* that arrives meanwhile is handed to it exactly once, whatever becomes of *)
(* the other connections, and nothing that arrived before it came or after  *)
(* it left.                                                                 *)
(*                                                                         *)
(* StepFeed implements this.                                                *)
(***************************************************************************)
CONSTANTS
    Conns,
    Watchers,  \* the connections that are told of every event; the others
               \* are told of an event if there is something to show
    Ids

VARIABLES
    published,  \* the events that have arrived
    joined,     \* the registered connections
    owed        \* owed[c]: the events that c is still to be handed

channelVars == <<published, joined, owed>>

ChannelInit ==
    /\ published = {} /\ joined = {}
    /\ owed = [c \in Conns |-> {}]

Join(c) ==
    /\ c \notin joined
    /\ joined' = joined \cup {c}
    /\ UNCHANGED <<published, owed>>

Publish(id, shown) ==
    LET recipients == IF shown THEN joined ELSE joined \cap Watchers IN
    /\ id \notin published
    /\ published' = published \cup {id}
    /\ owed' = [c \in Conns |->
                  IF c \in recipients THEN owed[c] \cup {id} ELSE owed[c]]
    /\ UNCHANGED joined

Deliver(c, id) ==
    /\ id \in owed[c]
    /\ owed' = [owed EXCEPT ![c] = @ \ {id}]
    /\ UNCHANGED <<published, joined>>

(* Connections leave, and with them what they were owed.                   *)
Part(S) ==
    /\ S # {} /\ S \subseteq joined
    /\ joined' = joined \ S
    /\ owed' = [c \in Conns |-> IF c \in S THEN {} ELSE owed[c]]
    /\ UNCHANGED published

ChannelNext ==
    \/ \E c \in Conns : Join(c)
    \/ \E id \in Ids, shown \in BOOLEAN : Publish(id, shown)
    \/ \E c \in Conns, id \in Ids : Deliver(c, id)
    \/ \E S \in SUBSET Conns : Part(S)

ChannelSpec == ChannelInit /\ [][ChannelNext]_channelVars
=============================================================================
