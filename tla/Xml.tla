---------------------------------- MODULE Xml -----------------------------------
(***************************************************************************)
(* The documents of tinyxml, in which SIP queries come and answers go: the *)
(* nodes with their pointers, the parser that builds a document from the   *)
(* tags of a message, and the printer.                                     *)
(*                                                                         *)
(* The parser is given its text one tag at a time, which stands for every  *)
(* text.  It sets a node's parent before it reads the node, and puts the   *)
(* node into its parent's list when it has read it, also when that failed. *)
(* Attributes and the encoding are left out, and texts are module XmlText; *)
(* a bad tag stands for all errors within the tag of an element, a broken  *)
(* one for a declaration that cannot be read and for a comment, or a tag   *)
(* that is unknown, without an end.                                        *)
(***************************************************************************)
EXTENDS XmlText

CONSTANTS
    Names,      \* names of elements
    MaxNodes,   \* bound: nodes that exist at a time
    MaxTokens,  \* bound: tags of a text
    MaxEdits    \* bound: changes after parsing

ASSUME XmlAssumption == "-" \notin Names /\ MaxNodes \in Nat \ {0} /\ {MaxTokens, MaxEdits} \subseteq Nat

VARIABLES
    node,   \* the nodes; node 1 is the document
    cur,    \* the innermost node that is being read
    phase,  \* "parse", "fail": the reading of every open node ends, or "done"
    error,  \* Error() of the document
    toks,   \* history: the tags that were read
    edits   \* changes since

vars == <<node, cur, phase, error, toks, edits>>

Doc == 1
Ids == 1 .. MaxNodes
Nil == [kind |-> "free", name |-> "-", parent |-> 0, first |-> 0, last |-> 0, prev |-> 0, next |-> 0]
Leaves == {"text", "comment", "declaration", "unknown"}
Holders == {"document", "element"}

TypeOK ==
    /\ node \in [Ids -> [kind : {"free"} \cup Holders \cup Leaves, name : Names \cup {"-"},
                         parent : Ids \cup {0}, first : Ids \cup {0}, last : Ids \cup {0},
                         prev : Ids \cup {0}, next : Ids \cup {0}]]
    /\ cur \in Ids /\ node[cur].kind \in Holders
    /\ phase \in {"parse", "fail", "done"} /\ (phase = "done" => cur = Doc)
    /\ error \in BOOLEAN /\ Len(toks) <= MaxTokens /\ edits \in 0 .. MaxEdits

Init ==
    /\ node = [n \in Ids |-> IF n = Doc THEN [Nil EXCEPT !.kind = "document"] ELSE Nil]
    /\ cur = Doc /\ phase = "parse" /\ error = FALSE /\ toks = <<>> /\ edits = 0

Used(D) == {n \in Ids : D[n].kind # "free"}
Free(D) == SetToSortSeq(Ids \ Used(D), <)

\* The children of p along firstChild and next, and p with all below it
Kids(D, p) ==
    LET from[n \in Ids \cup {0}] == IF n = 0 THEN <<>> ELSE <<n>> \o from[D[n].next]
    IN from[D[p].first]
Under(D, p) == LET under[n \in Ids] == {n} \cup UNION {under[m] : m \in Range(Kids(D, n))} IN under[p]

-----------------------------------------------------------------------------
\* LinkEndChild
Link(D, p, n) ==
    LET l == D[p].last
        E == [D EXCEPT ![n].parent = p, ![n].prev = l, ![n].next = 0, ![p].last = n]
    IN IF l = 0 THEN [E EXCEPT ![p].first = n] ELSE [E EXCEPT ![l].next = n]

\* The destructor deletes the children along their list
Delete(D, n) == [m \in Ids |-> IF m \in Under(D, n) THEN Nil ELSE D[m]]

\* Clear
Clear(D, p) ==
    [m \in Ids |-> IF m = p THEN [D[p] EXCEPT !.first = 0, !.last = 0]
                   ELSE IF m \in Under(D, p) THEN Nil ELSE D[m]]

\* What follows a node, or precedes it, gets another neighbour; the parent's ends do
\* where there is none
SetPrevOfNext(D, c, n) ==
    IF D[c].next # 0 THEN [D EXCEPT ![D[c].next].prev = n] ELSE [D EXCEPT ![D[c].parent].last = n]
SetNextOfPrev(D, c, n) ==
    IF D[c].prev # 0 THEN [D EXCEPT ![D[c].prev].next = n] ELSE [D EXCEPT ![D[c].parent].first = n]

\* Mutant: the node before the new one still has the old next
BeforeOneWay(D, c, n) ==
    [D EXCEPT ![n].parent = D[c].parent, ![n].next = c, ![n].prev = D[c].prev, ![c].prev = n,
              ![D[c].parent].first = IF @ = c THEN n ELSE @]

Before(D, c, n) ==
    LET E == SetNextOfPrev(D, c, n)
    IN [E EXCEPT ![n].parent = D[c].parent, ![n].next = c, ![n].prev = D[c].prev, ![c].prev = n]
After(D, c, n) ==
    LET E == SetPrevOfNext(D, c, n)
    IN [E EXCEPT ![n].parent = D[c].parent, ![n].prev = c, ![n].next = D[c].next, ![c].next = n]
InPlace(D, c, n) ==
    LET E == SetNextOfPrev(SetPrevOfNext(D, c, n), c, n)
        F == [E EXCEPT ![n].next = D[c].next, ![n].prev = D[c].prev]
    IN [Delete(F, c) EXCEPT ![n].parent = D[c].parent]

\* Mutant: a child that is removed is not deleted
UnlinkOnly(D, c) ==
    LET E == SetNextOfPrev(SetPrevOfNext(D, c, D[c].prev), c, D[c].next) IN [E EXCEPT ![c].next = 0, ![c].prev = 0, ![c].parent = 0]

Removed(D, c) ==
    Delete(SetNextOfPrev(SetPrevOfNext(D, c, D[c].prev), c, D[c].next), c)

\* Clone: the nodes below m again, as many free ones; its root is the first
Image(D, m) ==
    LET S == SetToSortSeq(Under(D, m), <)
        T == [i \in DOMAIN S |-> IF S[i] = m THEN 1 ELSE IF S[i] < m THEN i + 1 ELSE i]
    IN [n \in Under(D, m) |-> Free(D)[T[CHOOSE i \in DOMAIN S : S[i] = n]]]
Clone(D, m) ==
    LET f == Image(D, m)
        to(n) == IF n = 0 THEN 0 ELSE f[n]
        Copy(n) == [D[n] EXCEPT !.parent = IF n = m THEN 0 ELSE to(@), !.first = to(@), !.last = to(@),
                                !.prev = IF n = m THEN 0 ELSE to(@), !.next = IF n = m THEN 0 ELSE to(@)]
    IN [x \in Ids |-> IF \E n \in Under(D, m) : f[n] = x
                      THEN Copy(CHOOSE n \in Under(D, m) : f[n] = x) ELSE D[x]]
CanClone(D, m) == Len(Free(D)) >= Cardinality(Under(D, m))

-----------------------------------------------------------------------------
\* A node of its own, its parent set as Identify does it
Made(D, k, nm, p) == [D EXCEPT ![Head(Free(D))] = [Nil EXCEPT !.kind = k, !.name = nm, !.parent = p]]

Reads(t) ==
    /\ phase = "parse" /\ Len(toks) < MaxTokens /\ toks' = Append(toks, t)
    /\ UNCHANGED edits

\* TiXmlElement::Parse up to its value
Open(nm) ==
    /\ Reads([t |-> "open", name |-> nm]) /\ Free(node) # <<>>
    /\ node' = Made(node, "element", nm, cur)
    /\ cur' = Head(Free(node)) /\ UNCHANGED <<phase, error>>

\* An element without a value, a comment, a declaration or another tag: read, and linked
Whole(k, nm, t) ==
    /\ Reads(t) /\ Free(node) # <<>>
    /\ node' = Link(Made(node, k, nm, cur), cur, Head(Free(node)))
    /\ UNCHANGED <<cur, phase, error>>
Empty(nm) == Whole("element", nm, [t |-> "empty", name |-> nm])

Comment     == Whole("comment", "-", [t |-> "comment", name |-> "-"])
Declaration == Whole("declaration", "-", [t |-> "declaration", name |-> "-"])
TextNode    == Whole("text", "-", [t |-> "text", name |-> "-"])

\* Text ends the reading of the document, whatever follows; in an element it is
\* linked, and a tag follows
Text ==
    IF cur = Doc
    THEN /\ Reads([t |-> "text", name |-> "-"])
         /\ phase' = "done" /\ error' = (node[Doc].first = 0) /\ UNCHANGED <<node, cur>>
    ELSE (toks = <<>> \/ Last(toks).t # "text") /\ TextNode

\* Mutant: the end tag is taken for that of any element
CloseAny(nm) ==
    /\ cur # Doc /\ Reads([t |-> "close", name |-> nm])
    /\ node' = Link(node, node[cur].parent, cur) /\ cur' = node[cur].parent
    /\ UNCHANGED <<phase, error>>

\* An end tag: that of the element, which is linked, or of another; the document takes
\* it for a tag it does not know
Close(nm) ==
    \/ /\ cur # Doc /\ node[cur].name = nm /\ Reads([t |-> "close", name |-> nm])
       /\ node' = Link(node, node[cur].parent, cur) /\ cur' = node[cur].parent
       /\ UNCHANGED <<phase, error>>
    \/ /\ cur # Doc /\ node[cur].name # nm /\ Reads([t |-> "close", name |-> nm])
       /\ phase' = "fail" /\ error' = TRUE /\ UNCHANGED <<node, cur>>
    \/ cur = Doc /\ Whole("unknown", nm, [t |-> "close", name |-> nm])

\* A declaration that cannot be read, or a comment that does not end, sets no error
\* and is linked.  It ends the reading; only an element that is open misses its end
Broken(k) ==
    /\ Reads([t |-> "broken", name |-> k]) /\ Free(node) # <<>>
    /\ node' = Link(Made(node, k, "-", cur), cur, Head(Free(node)))
    /\ phase' = IF cur = Doc THEN "done" ELSE "fail"
    /\ error' = (cur # Doc) /\ UNCHANGED cur

\* An element whose tag is wrong sets an error, and is linked all the same
Bad(nm) ==
    /\ Reads([t |-> "bad", name |-> nm]) /\ Free(node) # <<>>
    /\ node' = Link(Made(node, "element", nm, cur), cur, Head(Free(node)))
    /\ phase' = "fail" /\ error' = TRUE /\ UNCHANGED cur

\* The text ends.  Within an element that is an error, and for a document without a node
End ==
    /\ phase = "parse"
    /\ phase' = IF cur = Doc THEN "done" ELSE "fail"
    /\ error' = (cur # Doc \/ node[Doc].first = 0)
    /\ UNCHANGED <<node, cur, toks, edits>>

\* After an error every open element is linked and left
Unwind ==
    /\ phase = "fail" /\ UNCHANGED <<error, toks, edits>>
    /\ IF cur = Doc THEN phase' = "done" /\ UNCHANGED <<node, cur>>
       ELSE /\ node' = Link(node, node[cur].parent, cur) /\ cur' = node[cur].parent
            /\ UNCHANGED phase

Parse ==
    \/ \E nm \in Names : Open(nm) \/ Empty(nm) \/ Close(nm) \/ Bad(nm)
    \/ \E k \in {"comment", "declaration"} : Broken(k)
    \/ Comment \/ Declaration \/ Text \/ End \/ Unwind

-----------------------------------------------------------------------------
\* The document in the hands of the program
Edits(D) ==
    /\ phase = "done" /\ edits < MaxEdits /\ edits' = edits + 1
    /\ node' = D /\ toks' = <<>> /\ UNCHANGED <<cur, phase, error>>

Single(n) == n # Doc /\ node[n].parent = 0

Create(k, nm) == Free(node) # <<>> /\ Edits(Made(node, k, nm, 0))

\* Only a node of its own is linked, and not below itself
LinkEndChild(p, n) == Single(n) /\ p \notin Under(node, n) /\ Edits(Link(node, p, n))

\* A document is never copied into another
InsertCopy(p, m) ==
    /\ m # Doc /\ CanClone(node, m)
    /\ LET D == Clone(node, m)  n == Head(Free(node)) IN
       \/ Edits(Link(D, p, n))
       \/ \E c \in Range(Kids(node, p)) :
            Edits(Before(D, c, n)) \/ Edits(After(D, c, n)) \/ Edits(InPlace(D, c, n))

RemoveChild(c) == node[c].parent # 0 /\ Edits(Removed(node, c))
ClearAll(p)    == node[p].first # 0 /\ Edits(Clear(node, p))
Destroy(n)     == Single(n) /\ Edits(Delete(node, n))

Edit ==
    \/ \E nm \in Names : Create("element", nm)
    \/ Create("text", "-")
    \/ \E p \in {n \in Used(node) : node[n].kind \in Holders} :
         \/ \E n \in Used(node) : LinkEndChild(p, n) \/ InsertCopy(p, n)
         \/ ClearAll(p)
    \/ \E n \in Used(node) : RemoveChild(n) \/ Destroy(n)

Next == Parse \/ Edit

Spec == Init /\ [][Next]_vars

-----------------------------------------------------------------------------
\* Whoever walks over siblings in either direction, up to the parent or down to an end
\* finds the same nodes, and every node is in the list of its parent (LinkEndChild,
\* the inserts, ReplaceChild, RemoveChild).
OneList ==
    \A p \in Used(node) :
      LET s == Kids(node, p) IN
      /\ node[p].last = IF s = <<>> THEN 0 ELSE Last(s)
      /\ \A i \in DOMAIN s : node[s[i]].parent = p /\ node[s[i]].prev = IF i = 1 THEN 0 ELSE s[i - 1]
      /\ \A n \in Used(node) : node[n].parent = p => n \in Range(s) \/ phase # "done"

\* The printer: an element without children is one tag
Printed(n) ==
    LET tag(k, m) == <<[t |-> k, name |-> node[m].name]>>
        out[m \in Ids] ==
          LET inner == FlattenSeq([i \in DOMAIN Kids(node, m) |-> out[Kids(node, m)[i]]])
          IN CASE node[m].kind = "document" -> inner
               [] node[m].kind = "element" /\ inner = <<>> -> tag("empty", m)
               [] node[m].kind = "element" /\ inner # <<>> -> tag("open", m) \o inner \o tag("close", m)
               [] node[m].kind = "unknown" -> tag("close", m)
               [] OTHER -> tag(node[m].kind, m)
    IN out[n]

\* The elements that the tags leave open: <<"wrong">> when an end tag is in the wrong
\* place, or a tag within an element cannot be read
LeftOpen ==
    FoldLeft(LAMBDA s, t : CASE s = <<"wrong">> \/ t.t = "bad" -> <<"wrong">>
                             [] s # <<"wrong">> /\ t.t = "open" -> Append(s, t.name)
                             [] s # <<"wrong">> /\ t.t = "close" /\ s # <<>> ->
                                  IF Last(s) = t.name THEN Front(s) ELSE <<"wrong">>
                             [] s # <<"wrong">> /\ t.t = "broken" /\ s # <<>> -> <<"wrong">>
                             [] OTHER -> s, <<>>, toks)

\* The message up to a text that ends it, a broken tag being taken for what it began as
Heard ==
    LET upto == IF toks # <<>> /\ Last(toks).t = "text" /\ LeftOpen = <<>> THEN Front(toks) ELSE toks
    IN [i \in DOMAIN upto |-> IF upto[i].t = "broken" THEN [t |-> upto[i].name, name |-> "-"]
                              ELSE upto[i]]

\* The same without the pairs of tags that enclose nothing
Shortened ==
    FoldLeft(LAMBDA s, t : IF s # <<>> /\ t.t = "close" /\ Last(s) = [t EXCEPT !.t = "open"]
                           THEN Append(Front(s), [t EXCEPT !.t = "empty"]) ELSE Append(s, t), <<>>, Heard)

\* What the parser accepts and what it makes of it: an error is reported just when
\* nothing is heard, the tag of an element is bad, or an element does not get its end
\* tag where it should.  Otherwise the document prints as what was heard, up to a text
\* or a broken tag between elements, with end tags there as they are.  Texts are read
\* as they were written (TextKept).
ReadAsSent ==
    phase = "done" /\ edits = 0 =>
        /\ error <=> (LeftOpen # <<>> \/ Heard = <<>>)
        /\ ~error => Printed(Doc) = Shortened
        /\ TextKept

\* "Failure to report error on bad XML" is fixed (tinyxmlparser.cpp:1112): text, an end
\* tag or a broken tag between the elements of a document is an error.
BadIsReported ==
    phase = "done" /\ edits = 0 /\ toks # <<>> /\ ~error =>
        /\ Last(toks).t \notin {"text", "broken"}
        /\ \A n \in Range(Kids(node, Doc)) : node[n].kind # "unknown"

\* The pointers implement the tree: every step makes, moves or deletes whole trees, and
\* deleting a document leaves no node of it behind, also after an error.
Tree == INSTANCE XmlTree WITH kids <- [n \in Used(node) |-> Kids(node, n)]
KeepsTree == Tree!Spec
===============================================================================
