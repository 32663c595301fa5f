--------------------------- MODULE BlockReadiness ---------------------------
(***************************************************************************)
(* What the block index promises to the download and validation code,      *)
(* without threads, queues or successor lists: headers and data arrive in  *)
(* any order, a header becomes ready above a ready header, data above      *)
(* ready data, and nothing that can become ready stays behind.             *)
(***************************************************************************)
CONSTANTS Blocks, Genesis, Parent, Loaded

VARIABLES
  known,        \* the blocks whose header is published (HeaderDone)
  stored,       \* the blocks whose data is published (DataDone)
  headerReady,  \* the blocks with a header path to the genesis block
  dataReady,    \* the blocks with a data path to the genesis block
  invalid       \* the blocks validation has rejected

vars == <<known, stored, headerReady, dataReady, invalid>>

Init ==
  /\ known = Loaded
  /\ stored = Loaded
  /\ headerReady = Loaded
  /\ dataReady = Loaded
  /\ invalid = {}

\* A header, a block or the data of a known header arrives, once.
Arrive(b, header, data) ==
  /\ header => b \notin known
  /\ data => b \notin stored
  /\ known' = IF header THEN known \cup {b} ELSE known
  /\ stored' = IF data THEN stored \cup {b} ELSE stored
  /\ UNCHANGED <<headerReady, dataReady, invalid>>

MayHeader(b) == b \in known \ headerReady /\ Parent[b] \in headerReady

MayData(b) == b \in (known \cap stored) \ dataReady /\ Parent[b] \in dataReady

\* One walk publishes one path of a block, or both together.
Publish(b, header, data) ==
  /\ header => MayHeader(b)
  /\ data => MayData(b)
  /\ headerReady' = IF header THEN headerReady \cup {b} ELSE headerReady
  /\ dataReady' = IF data THEN dataReady \cup {b} ELSE dataReady
  /\ UNCHANGED <<known, stored, invalid>>

Reject(b) ==
  /\ b \in headerReady \cap dataReady
  /\ invalid' = invalid \cup {b}
  /\ UNCHANGED <<known, stored, headerReady, dataReady>>

Next ==
  \E b \in Blocks \ {Genesis} :
    \/ \E header, data \in BOOLEAN : Arrive(b, header, data) \/ Publish(b, header, data)
    \/ Reject(b)

BecomesHeaderReady(b) == MayHeader(b) /\ \E data \in BOOLEAN : Publish(b, TRUE, data)

\* A block that became invalid, or whose parent did, need not become data-ready.
BecomesDataReady(b) ==
  /\ MayData(b)
  /\ b \notin invalid /\ Parent[b] \notin invalid
  /\ \E header \in BOOLEAN : Publish(b, header, TRUE)

Fairness ==
  \A b \in Blocks \ {Genesis} :
    WF_vars(BecomesHeaderReady(b)) /\ WF_vars(BecomesDataReady(b))

SafeSpec == Init /\ [][Next]_vars
Spec == SafeSpec /\ Fairness
=============================================================================
