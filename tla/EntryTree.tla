----------------------------- MODULE EntryTree -----------------------------
(***************************************************************************)
(* What GraphBuilder promises its clients about entries, with no trace of  *)
(* indices, child lists or the dense/sparse switch: a rooted tree of ids   *)
(* that grows one leaf at a time.  A record is admitted or refused for a   *)
(* reason that can be read off the tree alone; a refusal changes nothing,  *)
(* and nothing changes once the tree is sealed by a terminal record.       *)
(***************************************************************************)
EXTENDS Naturals

CONSTANTS Ids, Kinds

VARIABLES
  tree,     \* id |-> [parent_id, kind]
  verdict,  \* the answer to the last call
  sealed,   \* a terminal record was accepted
  open      \* the builder has not been consumed

vars == <<tree, verdict, sealed, open>>

Nodes == DOMAIN tree

Init ==
  /\ tree = <<>>
  /\ verdict = "Ok"
  /\ sealed = FALSE
  /\ open = TRUE

IllPlacedRoot(id, p, k) ==
  IF Nodes = {} THEN id # 1 \/ p # 0 \/ k # "Directory" ELSE p = 0 \/ id = 1

\* The reasons that may be given for refusing an entry.
Refusable(id, p, k, why) ==
  \/ why = "SelfParent" /\ id = p
  \/ why = "InvalidRoot" /\ IllPlacedRoot(id, p, k)
  \/ why = "DuplicateEntryId" /\ id \in Nodes
  \/ /\ why = "MissingParent"
     /\ Nodes # {} /\ id \notin Nodes /\ p \notin Nodes
  \/ /\ why = "ParentNotDirectory"
     /\ id \notin Nodes /\ p \in Nodes
     /\ tree[p].kind # "Directory"

Reasons == {"SelfParent", "InvalidRoot", "DuplicateEntryId", "MissingParent",
            "ParentNotDirectory"}

Add(id, p, k) ==
  /\ verdict' = "Ok"
  /\ open /\ ~sealed
  /\ \A why \in Reasons : ~Refusable(id, p, k, why)
  /\ tree' = [x \in Nodes \union {id} |->
                IF x = id THEN [parent_id |-> p, kind |-> k] ELSE tree[x]]
  /\ UNCHANGED <<sealed, open>>

Refuse(id, p, k, why) ==
  /\ verdict' = why
  /\ open /\ ~sealed
  /\ Refusable(id, p, k, why)
  /\ UNCHANGED <<tree, sealed, open>>

\* A secondary stream belongs to a node of the tree.
Attach(id) ==
  /\ open /\ ~sealed
  /\ verdict' = IF id \in Nodes THEN "Ok" ELSE "UnknownStreamParent"
  /\ UNCHANGED <<tree, sealed, open>>

Note ==
  /\ open /\ ~sealed
  /\ verdict' = "Ok"
  /\ UNCHANGED <<tree, sealed, open>>

Seal ==
  /\ open /\ ~sealed
  /\ \/ sealed' = TRUE /\ verdict' = "Ok"
     \/ sealed' = FALSE /\ verdict' = "AggregateMismatch"
  /\ UNCHANGED <<tree, open>>

RefuseLate ==
  /\ open /\ sealed
  /\ verdict' = "RecordAfterTerminal"
  /\ UNCHANGED <<tree, sealed, open>>

\* Only a sealed tree becomes a graph; a sealed empty one may.
Consume ==
  /\ open
  /\ open' = FALSE
  /\ \/ sealed /\ verdict' = "Ok"
     \/ sealed /\ Nodes = {} /\ verdict' = "InvalidRoot"
     \/ ~sealed /\ verdict' = "MissingTerminal"
  /\ UNCHANGED <<tree, sealed>>

Next ==
  \/ Seal
  \/ RefuseLate
  \/ Consume
  \/ Note
  \/ \E id \in Ids : Attach(id)
  \/ \E id, p \in Ids, k \in Kinds :
       \/ Add(id, p, k)
       \/ \E why \in Reasons : Refuse(id, p, k, why)

Spec == Init /\ [][Next]_vars
=============================================================================
