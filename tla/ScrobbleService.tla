--------------------------- MODULE ScrobbleService ---------------------------
(***************************************************************************)
(* What the submission pipeline of scrobby promises for the songs handed   *)
(* to it, without saying how: a song is held in memory or on disk, and it  *)
(* leaves this custody only once the server has taken it, or, while it is  *)
(* held in memory alone, because the program stopped.                      *)
(*                                                                         *)
(* ScrobbleQueue implements this specification.                            *)
(***************************************************************************)
CONSTANT Songs

VARIABLES
    inMemory,   \* songs held by the running program and not on disk
    onDisk,     \* songs that survive a stop of the program
    delivered   \* songs the server has taken

serviceVars == <<inMemory, onDisk, delivered>>

ServiceTypeOK ==
    /\ inMemory \subseteq Songs
    /\ onDisk \subseteq Songs
    /\ delivered \subseteq Songs

ServiceInit ==
    /\ inMemory = {}
    /\ onDisk = {}
    /\ delivered = {}

\* A finished song is handed over. It is new: neither held nor delivered.
Accept(x) ==
    /\ x \notin inMemory \cup onDisk \cup delivered
    /\ inMemory' = inMemory \cup {x}
    /\ UNCHANGED <<onDisk, delivered>>

\* A song held in memory reaches the disk.
Store(x) ==
    /\ x \in inMemory
    /\ inMemory' = inMemory \ {x}
    /\ onDisk' = onDisk \cup {x}
    /\ UNCHANGED delivered

\* The server takes some of the songs that are held.
Deliver(S) ==
    /\ S \subseteq inMemory \cup onDisk
    /\ delivered' = delivered \cup S
    /\ UNCHANGED <<inMemory, onDisk>>

\* Only a delivered song may be let go, in memory or on disk.
LetGo(S) ==
    /\ S \subseteq delivered
    /\ inMemory' = inMemory \ S
    /\ onDisk' \in {onDisk, onDisk \ S}
    /\ UNCHANGED delivered

\* The program stops, whatever the reason: the disk is what remains.
Stop ==
    /\ inMemory' = {}
    /\ UNCHANGED <<onDisk, delivered>>

ServiceNext ==
    \/ \E x \in Songs : Accept(x) \/ Store(x)
    \/ \E S \in SUBSET Songs : Deliver(S) \/ LetGo(S)
    \/ Stop

ServiceSpec == ServiceInit /\ [][ServiceNext]_serviceVars
=============================================================================
