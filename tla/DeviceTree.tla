----------------------------- MODULE DeviceTree -----------------------------
(***************************************************************************)
(* The device tree parser (crates/fdt).  Firmware writes a structure block *)
(* token by token; a cursor (Walk) then reads it once, keeping the names   *)
(* and the cell counts of the open nodes, and iterators that start inside  *)
(* a node (Properties, Children, Reg) answer the callers.  Byte offsets,   *)
(* padding and string lookup are one position per token here.             *)
(***************************************************************************)
EXTENDS Integers, SequencesExt

CONSTANTS
    Names,       \* node names: base and unit address, "" for none
    MaxTokens,   \* how much firmware writes
    MAX_DEPTH,   \* how deep the cursor can follow
    CELL         \* one past the largest cell

VARIABLES
    tokens,   \* the structure block
    ready,    \* firmware has handed the blob over
    walk      \* the cursor, and the nodes it has returned

treeVars == <<tokens, ready, walk>>

Begin(name) == [t |-> "begin", name |-> name]
EndNode == [t |-> "end"]
Nop == [t |-> "nop"]
End == [t |-> "END"]
Prop(name, value, meant) == [t |-> "prop", name |-> name, value |-> value, meant |-> meant]
DEFAULT_CELLS == [address |-> 2, size |-> 1]

TreeInit ==
    /\ tokens = <<>> /\ ready = FALSE
    /\ walk = [pos |-> 1, names |-> <<>>, cells |-> <<>>, nodes |-> <<>>, done |-> FALSE, err |-> "none"]
-----------------------------------------------------------------------------
\* What a tree means, from the whole of it.
Is(i, t) == tokens[i].t = t
Upto(i, t) == Cardinality({j \in 1..i : Is(j, t)})
DepthAt(i) == Upto(i - 1, "begin") - Upto(i - 1, "end")
Opened == {i \in DOMAIN tokens : Is(i, "begin")}
Latest(S) == CHOOSE i \in S : \A j \in S : j <= i
\* The node token i lies in; 0 outside the root.
OwnerOf(i) == LET S == {j \in Opened : j < i /\ DepthAt(j) = DepthAt(i) - 1}
              IN IF S = {} THEN 0 ELSE Latest(S)
Said(n, name) == {i \in DOMAIN tokens : Is(i, "prop") /\ tokens[i].name = name /\ OwnerOf(i) = n}
InForce(n) ==
    LET f[i \in {0} \cup Opened] ==
          IF i = 0 THEN DEFAULT_CELLS
          ELSE [address |-> IF Said(i, "#address-cells") = {} THEN f[OwnerOf(i)].address
                            ELSE tokens[Latest(Said(i, "#address-cells"))].value[1],
                size    |-> IF Said(i, "#size-cells") = {} THEN f[OwnerOf(i)].size
                            ELSE tokens[Latest(Said(i, "#size-cells"))].value[1]]
    IN f[n]
-----------------------------------------------------------------------------
\* Firmware: a node's properties come before its children, each once, and a
\* reg is written in the cells its parent declared.  It may stop anywhere.
Depth == DepthAt(Len(tokens) + 1)
Fresh(name) == \* a property may still be written in the open node
    /\ Depth > 0 /\ OwnerOf(Len(tokens) + 1) = Latest(Opened)
    /\ Said(OwnerOf(Len(tokens) + 1), name) = {}
encode(v, n) == [i \in 1..n |-> (v \div CELL^(n - i)) % CELL]

Emit(token) == tokens' = Append(tokens, token) /\ UNCHANGED <<ready, walk>>
Write ==
    /\ ~ready /\ Len(tokens) < MaxTokens
    /\ \/ \E name \in Names : (Depth > 0 \/ tokens = <<>>) /\ Emit(Begin(name))
       \/ Depth > 0 /\ Emit(EndNode)
       \/ tokens # <<>> /\ Last(tokens).t # "nop" /\ Emit(Nop)
       \/ \E n \in 1..2 : Fresh("#address-cells") /\ Emit(Prop("#address-cells", <<n>>, <<>>))
       \/ Fresh("#size-cells") /\ Emit(Prop("#size-cells", <<0>>, <<>>))
       \/ /\ Fresh("reg")
          /\ LET c    == InForce(OwnerOf(OwnerOf(Len(tokens) + 1)))
                 bank == <<2, IF c.size = 0 THEN 0 ELSE 1>>
             IN Emit(Prop("reg", encode(bank[1], c.address) \o encode(bank[2], c.size), bank))

HandOver == /\ ~ready /\ tokens # <<>> /\ ready' = TRUE
            /\ tokens' = IF Depth = 0 THEN Append(tokens, End) ELSE tokens
            /\ UNCHANGED walk
-----------------------------------------------------------------------------
\* Walk::next_node, one token of its loop at a time.
Fail(e) == walk' = [walk EXCEPT !.done = TRUE, !.err = e]
Level == Len(walk.names)
Skip == [walk EXCEPT !.pos = @ + 1]
\* Cells in force for a node's children start as its parent's.
\* Mutant: as the default.
inherited_default == DEFAULT_CELLS
inherited == IF Level = 0 THEN DEFAULT_CELLS ELSE walk.cells[Level]

read_name(token) ==
    IF Level >= MAX_DEPTH THEN Fail("too deep")
    ELSE walk' = [Skip EXCEPT !.names = Append(@, token.name), !.cells = Append(@, inherited),
                              !.nodes = Append(@, [name |-> token.name, at |-> walk.pos,
                                                   parent_cells |-> inherited,
                                                   path |-> Append(walk.names, token.name)])]
read_prop(token) ==
    IF Level = 0 THEN Fail("bad structure")
    ELSE walk' = CASE token.name = "#address-cells" -> [Skip EXCEPT !.cells[Level].address = token.value[1]]
                   [] token.name = "#size-cells" -> [Skip EXCEPT !.cells[Level].size = token.value[1]]
                   [] OTHER -> Skip
leave == [Skip EXCEPT !.names = Front(@), !.cells = Front(@)]

next_node ==
    /\ ready /\ ~walk.done
    /\ IF walk.pos > Len(tokens) THEN walk' = [walk EXCEPT !.done = TRUE]
       ELSE LET token == tokens[walk.pos]
            IN \/ token.t = "nop" /\ walk' = Skip
               \/ token.t = "END" /\ walk' = [Skip EXCEPT !.done = TRUE]
               \/ token.t = "end" /\ IF Level = 0 THEN Fail("bad structure") ELSE walk' = leave
               \/ token.t = "begin" /\ read_name(token)
               \/ token.t = "prop" /\ read_prop(token)
    /\ UNCHANGED <<tokens, ready>>

TreeNext == Write \/ HandOver \/ next_node
TreeSpec == TreeInit /\ [][TreeNext]_treeVars
-----------------------------------------------------------------------------
\* Properties: from the first token of the node to the first that is neither a
\* property nor a NOP.
properties(node) ==
    LET ends == {i \in (node.at + 1)..(Len(tokens) + 1) : i > Len(tokens) \/ tokens[i].t \notin {"nop", "prop"}}
        last == CHOOSE i \in ends : \A j \in ends : i <= j
    IN SelectSeq(SubSeq(tokens, node.at + 1, last - 1), LAMBDA p : p.t = "prop")
property(node, name) == SelectSeq(properties(node), LAMBDA p : p.name = name)

\* Node::cells: its own declarations, else its parent's.
node_cells(node) ==
    [address |-> IF property(node, "#address-cells") = <<>> THEN node.parent_cells.address
                 ELSE property(node, "#address-cells")[1].value[1],
     size    |-> IF property(node, "#size-cells") = <<>> THEN node.parent_cells.size
                 ELSE property(node, "#size-cells")[1].value[1]]

\* Children::skip_subtree: just past the END_NODE that matches, 0 when the blob
\* runs out first.
skip_subtree(i) ==
    LET f[j \in 1..(Len(tokens) + 1), d \in 0..Len(tokens)] ==
          IF d = 0 THEN j
          ELSE IF j > Len(tokens) \/ tokens[j].t = "END" THEN 0
          ELSE f[j + 1, d + (CASE tokens[j].t = "begin" -> 1 [] tokens[j].t = "end" -> -1 [] OTHER -> 0)]
    IN f[i, 1]

\* Children::next until there are none left.
children(node) ==
    LET f[i \in 0..(Len(tokens) + 1)] ==
          IF i = 0 \/ i > Len(tokens) THEN <<>>
          ELSE IF tokens[i].t \in {"nop", "prop"} THEN f[i + 1]
          ELSE IF tokens[i].t = "begin" /\ skip_subtree(i + 1) # 0
          THEN <<[name |-> tokens[i].name, at |-> i, parent_cells |-> node_cells(node)]>> \o f[skip_subtree(i + 1)]
          ELSE <<>>
    IN f[node.at + 1]

\* read_cells and Reg::next: one (address, size) pair per entry, in the cells
\* of the parent.
read_cells(value, from, n) ==
    LET f[i \in 0..n] == IF i = 0 THEN 0 ELSE (f[i - 1] * CELL + value[from + i]) % CELL^2 IN f[n]
Entry(value, c, k) ==
    LET at == (k - 1) * (c.address + c.size)
    IN <<read_cells(value, at, c.address), read_cells(value, at + c.address, c.size)>>
reg(node) ==
    LET p == property(node, "reg")
        c == node.parent_cells
        e == c.address + c.size
    IN IF p = <<>> \/ e = 0 THEN <<>>
       ELSE [k \in 1..(Len(p[1].value) \div e) |-> Entry(p[1].value, c, k)]
-----------------------------------------------------------------------------
\* Every node is returned once and in order, under the path of the nodes that
\* enclose it and with the cells its parent has in force, and its reg means
\* what firmware wrote, whatever its siblings and their children declared.
NodesKnowTheirParent ==
    /\ \A k \in DOMAIN walk.nodes :
         LET n == walk.nodes[k]
             up == OwnerOf(n.at)
         IN /\ Is(n.at, "begin") /\ Upto(n.at, "begin") = k
            /\ n.parent_cells = InForce(up)
            /\ Len(n.path) = DepthAt(n.at) + 1
            /\ up # 0 => Front(n.path) = walk.nodes[Upto(up, "begin")].path
            /\ property(n, "reg") # <<>> => reg(n) = <<property(n, "reg")[1].meant>>
    /\ walk.done /\ walk.err = "none" => Len(walk.nodes) = Cardinality(Opened)

\* The two readers agree: the children of a node, found by skipping their
\* subtrees, are the nodes the cursor found directly below it, with the same
\* cells.
ChildrenAgree ==
    walk.done /\ walk.err = "none" /\ Last(tokens) = End =>
      \A k \in DOMAIN walk.nodes :
        LET below == SelectSeq(walk.nodes, LAMBDA m : OwnerOf(m.at) = walk.nodes[k].at)
        IN children(walk.nodes[k]) =
             [i \in 1..Len(below) |-> [name |-> below[i].name, at |-> below[i].at,
                                       parent_cells |-> below[i].parent_cells]]
=============================================================================
