--------------------------- MODULE VersionedStore ---------------------------
(***************************************************************************)
(* What a power-safe store of nodes promises.  "versions" holds the        *)
(* contents a power loss may bring back: the first is what the last        *)
(* write-through made durable, the last is what the running program sees.  *)
(* A power loss keeps one of them, whole: never a mixture of two, never    *)
(* anything older than the last write-through.                             *)
(***************************************************************************)
EXTENDS Naturals, Sequences

CONSTANT Node  \* the nodes a content is made of

VARIABLE versions

Current == versions[Len(versions)]

StoreInit == versions = << {} >>

Add == \E n \in Node : versions' = Append(versions, Current \cup {n})

Replace == \E n \in Node : \E o \in Current :
              versions' = Append(versions, (Current \ {o}) \cup {n})

Remove == \E o \in Current : versions' = Append(versions, Current \ {o})

WriteThrough == versions' = << Current >>

PowerLoss == \E i \in 1 .. Len(versions) : versions' = << versions[i] >>

StoreNext == Add \/ Replace \/ Remove \/ WriteThrough \/ PowerLoss

StoreSpec == StoreInit /\ [][StoreNext]_versions
=============================================================================
