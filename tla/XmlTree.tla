-------------------------------- MODULE XmlTree ---------------------------------
(***************************************************************************)
(* What a document of tinyxml promises, without its pointers: the nodes    *)
(* that exist and the children of each in their order.  A node is the      *)
(* child of at most one other, and is deleted with all that is below it.   *)
(***************************************************************************)
EXTENDS Naturals, Sequences, SequencesExt

CONSTANTS
    Ids,  \* every node there may be
    Doc   \* the document, a node that is never a child

VARIABLE kids  \* the children of each node that exists

Nodes == DOMAIN kids
Below[n \in Ids] == {n} \cup UNION {Below[m] : m \in Range(kids[n])}
IsChild(n) == \E p \in Nodes : n \in Range(kids[p])

Init == kids = [n \in {Doc} |-> <<>>]

\* The nodes that are new, when they are one tree with root r
Fresh == DOMAIN kids' \ Nodes
IsTree(r) ==
    /\ r \in Fresh
    /\ \A n \in Fresh : Range(kids'[n]) \subseteq Fresh \ {r} /\ IsInjective(kids'[n])
    /\ \A m \in Fresh \ {r} : \E n \in Fresh :
          m \in Range(kids'[n]) /\ \A o \in Fresh \ {n} : m \notin Range(kids'[o])

\* Nothing happens to the children of a node that was there, except of p
OnlyOf(p) == \A n \in (Nodes \cap DOMAIN kids') \ {p} : kids'[n] = kids[n]

\* A new tree, on its own or as a child of p
New == \E r \in Fresh : IsTree(r) /\ Nodes \subseteq DOMAIN kids' /\ OnlyOf(r)
Graft(p) ==
    \E r \in Fresh :
      /\ IsTree(r) /\ Nodes \subseteq DOMAIN kids' /\ OnlyOf(p)
      /\ \E i \in 1 .. Len(kids[p]) + 1 : kids'[p] = InsertAt(kids[p], i, r)

\* A tree that is on its own becomes the last child of p
Attach(p, r) ==
    /\ r # Doc /\ ~IsChild(r) /\ p \notin Below[r]
    /\ kids' = [kids EXCEPT ![p] = Append(@, r)]

\* A new tree in the place of a child of p
Replace(p) ==
    \E r \in Fresh, i \in DOMAIN kids[p] :
      /\ IsTree(r) /\ DOMAIN kids' = (Nodes \ Below[kids[p][i]]) \cup Fresh /\ OnlyOf(p)
      /\ kids'[p] = [kids[p] EXCEPT ![i] = r]

\* A tree goes, or all that is below p
Prune(n) ==
    /\ n # Doc
    /\ kids' = [m \in Nodes \ Below[n] |-> SelectSeq(kids[m], LAMBDA x : x # n)]
Clear(p) ==
    kids' = [m \in Nodes \ (Below[p] \ {p}) |-> IF m = p THEN <<>> ELSE kids[m]]

Next ==
    \/ New
    \/ \E p \in Nodes : Graft(p) \/ Replace(p) \/ Prune(p) \/ Clear(p)
    \/ \E p, r \in Nodes : Attach(p, r)

Spec == Init /\ [][Next]_kids
===============================================================================
