----------------------------- MODULE BlockPolicy -----------------------------
(***************************************************************************)
(* SensorDataBlockPolicy: which processes get no data of which sensor      *)
(* types, because a client (a screen casting service) asked for it, and    *)
(* the death observer of SensorService that clears what a dead client      *)
(* asked for.  The observer knows the clients in clientPidMap_, which      *)
(* TransferDataChannel fills and DestroySensorChannel empties.             *)
(***************************************************************************)
CONSTANTS
    Clients,  \* processes that block the data of others
    Targets,  \* processes whose data is blocked
    Types     \* sensor types

VARIABLES
    blocks,   \* blocks[t][c]: the types in blockPolicies_[t][c], if any
    watched,  \* the clients in clientPidMap_, whose death is observed
    alive,    \* the clients that live
    asked     \* history: what living clients want blocked

blockVars == <<blocks, watched, alive, asked>>

NoBlocks == [t \in Targets |-> [c \in Clients |-> {}]]

BlockTypeOK ==
    /\ blocks \in [Targets -> [Clients -> SUBSET Types]]
    /\ asked \in [Targets -> [Clients -> SUBSET Types]]
    /\ watched \subseteq Clients
    /\ alive \subseteq Clients

BlockInit ==
    /\ blocks = NoBlocks /\ asked = NoBlocks
    /\ watched = {}
    /\ alive = Clients

IsSensorDataBlocked(t, s) ==
    t \in Targets /\ \E c \in Clients : s \in blocks[t][c]

\* What a client wants blocked adds to what it blocked before.
BlockSensorDataByPid(t, c, types) ==
    /\ c \in alive /\ types # {}
    /\ blocks' = [blocks EXCEPT ![t][c] = @ \cup types]
    /\ asked' = [asked EXCEPT ![t][c] = @ \cup types]
    /\ UNCHANGED <<watched, alive>>

\* The blocks of other clients go too.
UnblockMutant(t, c) ==
    /\ c \in alive
    /\ blocks' = [blocks EXCEPT ![t] = NoBlocks[t]]
    /\ asked' = [asked EXCEPT ![t][c] = {}]
    /\ UNCHANGED <<watched, alive>>

UnblockSensorDataByClient(t, c) ==
    /\ c \in alive
    /\ blocks' = [blocks EXCEPT ![t][c] = {}]
    /\ asked' = [asked EXCEPT ![t][c] = {}]
    /\ UNCHANGED <<watched, alive>>

\* TransferDataChannel of a client: RegisterClientDeathRecipient.
Watch(c) ==
    /\ c \in alive
    /\ watched' = watched \cup {c}
    /\ UNCHANGED <<blocks, alive, asked>>

\* DestroySensorChannel of a client: UnregisterClientDeathRecipient.
Unwatch(c) ==
    /\ c \in alive
    /\ watched' = watched \ {c}
    /\ UNCHANGED <<blocks, alive, asked>>

ClientDies(c) ==
    /\ c \in alive
    /\ alive' = alive \ {c}
    /\ asked' = [t \in Targets |-> [asked[t] EXCEPT ![c] = {}]]
    /\ UNCHANGED <<blocks, watched>>

ClearBlockPolicyByClient(c) ==
    blocks' = [t \in Targets |-> [blocks[t] EXCEPT ![c] = {}]]

\* ProcessDeathObserver of a client, as far as it is about blocks.
ClientDeathObserved(c) ==
    /\ c \in watched \ alive
    /\ ClearBlockPolicyByClient(c)
    /\ watched' = watched \ {c}
    /\ UNCHANGED <<alive, asked>>

BlockNext ==
    \E c \in Clients :
        \/ \E t \in Targets, types \in SUBSET Types : BlockSensorDataByPid(t, c, types)
        \/ \E t \in Targets : UnblockSensorDataByClient(t, c)
        \/ Watch(c) \/ Unwatch(c)
        \/ ClientDies(c)
        \/ ClientDeathObserved(c)

BlockSpec == BlockInit /\ [][BlockNext]_blockVars

=============================================================================
