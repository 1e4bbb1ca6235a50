------------------------------- MODULE Dddmp --------------------------------
(***************************************************************************)
(* Export of functions to a DDDMP file and import from it                  *)
(* (crates/oxidd-dump/src/dddmp.rs).  A file is a record: the fields of    *)
(* its header, and the lines or bytes of its nodes.                        *)
(*                                                                         *)
(* The functions are those of the diagrams that the constants describe:    *)
(* edges are tuples <<level, then, else, ...>>, terminals are at level     *)
(* NumVars.  Text is left out, but for the numerals and the descriptions   *)
(* of terminals, which a reader of a line has to tell apart.  The name of  *)
(* a variable is its position in the vars passed to export.                *)
(***************************************************************************)
EXTENDS Integers, FiniteSets, SequencesExt

CONSTANTS
  NumVars,
  GroupBits,            \* bits of a number per byte of a binary file: 7
  reduce(_, _, _),      \* the reduction rule of the diagrams
  complement(_),        \* the argument complement of import
  is_complemented(_),   \* the argument of the same name of export
  Untagged(_),          \* Edge::with_tag(Default::default())
  describe(_),          \* AsciiDisplay of a terminal
  from_str(_)           \* FromStr: the terminals a description stands for

Level(e)   == e[1]
IsInner(e) == Level(e) < NumVars
MinOf(a, b) == IF a <= b THEN a ELSE b

\* Results of the functions that read: a value and the rest of the input.
Read(value, rest) == [ok |-> TRUE, value |-> value, rest |-> rest]
Failed            == [ok |-> FALSE, value |-> 0, rest |-> <<>>]

-----------------------------------------------------------------------------
(* Numbers and bytes of binary files *)

Escapes == [b \in {0, 10, 13, 26} |-> CASE b = 0 -> 0 [] b = 10 -> 1 [] b = 13 -> 2 [] b = 26 -> 3]

write_escaped(bytes) ==
  FlattenSeq([i \in DOMAIN bytes |->
    IF bytes[i] \in DOMAIN Escapes THEN <<0, Escapes[bytes[i]]>> ELSE <<bytes[i]>>])

read_unescape(in) ==
  IF in = <<>> THEN Failed
  ELSE IF in[1] # 0 THEN Read(in[1], Tail(in))
  ELSE IF Len(in) = 1 \/ in[2] \notin {Escapes[b] : b \in DOMAIN Escapes} THEN Failed
  ELSE Read(CHOOSE b \in DOMAIN Escapes : Escapes[b] = in[2], SubSeq(in, 3, Len(in)))

\* The groups of a number, the highest first.  Bit 0 of a byte says that more
\* bytes follow.
RECURSIVE HighGroups(_)
HighGroups(value) ==
  IF value = 0 THEN <<>>
  ELSE Append(HighGroups(value \div 2 ^ GroupBits), 2 * (value % 2 ^ GroupBits) + 1)

encode_7bit(value) ==
  write_escaped(Append(HighGroups(value \div 2 ^ GroupBits), 2 * (value % 2 ^ GroupBits)))

RECURSIVE DecodeFrom(_, _)
DecodeFrom(in, res) ==
  LET b == read_unescape(in)
      value == res * 2 ^ GroupBits + b.value \div 2 IN
  IF ~b.ok THEN Failed
  ELSE IF b.value % 2 = 0 THEN Read(value, b.rest)
  ELSE DecodeFrom(b.rest, value)

decode_7bit(in) == DecodeFrom(in, 0)

-----------------------------------------------------------------------------
(* export *)

RECURSIVE rec_add_map(_)
rec_add_map(e) ==
  {Untagged(e)} \cup (IF IsInner(e) THEN rec_add_map(e[2]) \cup rec_add_map(e[3]) ELSE {})

\* suppvars: the levels that have nodes
Support(nodes) == {Level(n) : n \in nodes} \ {NumVars}

\* The number of a level when those without nodes are left out
var_idx(nodes, level) == Cardinality({l \in Support(nodes) : l < level})

\* The nodes in the order of their numbers: terminals first, then bottom-up.
\* Within a level the order is the one of a hash map; reversed tells two apart.
Numbered(nodes, reversed) ==
  LET OfLevel(level) == SetToSeq({n \in nodes : Level(n) = level}) IN
  FlattenSeq([i \in 1 .. NumVars + 1 |->
    IF reversed THEN Reverse(OfLevel(NumVars + 1 - i)) ELSE OfLevel(NumVars + 1 - i)])

NodeId(order, e) == CHOOSE i \in DOMAIN order : order[i] = Untagged(e)

idx(order, e) == IF is_complemented(e) THEN -NodeId(order, e) ELSE NodeId(order, e)

Numeral(n) == <<"0", "1", "2", "3", "4", "5", "6", "7", "8", "9">>[n + 1]

AsciiLine(nodes, order, id) ==
  LET n == order[id] IN
  IF IsInner(n)
  THEN [id |-> id, text |-> Numeral(var_idx(nodes, Level(n))),
        t |-> idx(order, n[2]), e |-> idx(order, n[3])]
  ELSE [id |-> id, text |-> describe(n), t |-> 0, e |-> 0]

\* Code
Terminal   == 0
AbsoluteID == 1
RelativeID == 2
Relative1  == 3

\* Mutant: a distance of zero to the previous node.
BinIdxOffByOne(order, e, id) ==
  LET i == NodeId(order, e) IN
  IF ~IsInner(e) THEN <<Terminal, 0>>
  ELSE IF i = id - 1 THEN <<Relative1, 0>>
  ELSE IF id - i < i THEN <<RelativeID, id - i - 1>>
  ELSE <<AbsoluteID, i>>

bin_idx(order, e, id) ==
  LET i == NodeId(order, e) IN
  IF ~IsInner(e) THEN <<Terminal, 0>>
  ELSE IF i = id - 1 THEN <<Relative1, 0>>
  ELSE IF id - i < i THEN <<RelativeID, id - i>>
  ELSE <<AbsoluteID, i>>

bin_var(nodes, n) ==
  LET v == var_idx(nodes, Level(n))
      below == MinOf(Level(n[2]), Level(n[3]))
      distance == var_idx(nodes, below) - v IN
  IF below = NumVars THEN <<AbsoluteID, v>>
  ELSE IF distance = 1 THEN <<Relative1, v>>
  ELSE IF distance < v THEN <<RelativeID, distance>>
  ELSE <<AbsoluteID, v>>

node_code(var, t, e_complement, e) ==
  32 * var + 8 * t + 4 * (IF e_complement THEN 1 ELSE 0) + e

BinNode(nodes, order, id) ==
  LET n == order[id]
      v == bin_var(nodes, n)
      t == bin_idx(order, n[2], id)
      e == bin_idx(order, n[3], id)
      Number(c) == IF c[1] \in {AbsoluteID, RelativeID} THEN encode_7bit(c[2]) ELSE <<>> IN
  IF IsInner(n)
  THEN write_escaped(<<node_code(v[1], t[1], is_complemented(n[3]), e[1])>>)
         \o Number(v) \o Number(t) \o Number(e)
  ELSE write_escaped(<<node_code(Terminal, Terminal, FALSE, Terminal)>>)

\* vars[i] is the level of the i-th variable.
export(roots, vars, ascii, reversed) ==
  LET nodes == UNION {rec_add_map(roots[i]) : i \in DOMAIN roots}
      order == Numbered(nodes, reversed)
      used  == SelectSeq([i \in 1 .. NumVars |-> i], LAMBDA i : vars[i] \in Support(nodes)) IN
  [ascii     |-> ascii,
   nnodes    |-> Len(order),
   nvars     |-> NumVars,
   nsuppvars |-> Cardinality(Support(nodes)),
   suppvarnames    |-> used,
   orderedvarnames |-> [l \in 1 .. NumVars |-> CHOOSE i \in 1 .. NumVars : vars[i] = l - 1],
   ids       |-> [i \in DOMAIN used |-> used[i] - 1],
   permids   |-> [i \in DOMAIN used |-> vars[used[i]]],
   nroots    |-> Len(roots),
   rootids   |-> [i \in DOMAIN roots |-> idx(order, roots[i])],
   nodes     |-> IF ascii THEN [id \in DOMAIN order |-> AsciiLine(nodes, order, id)]
                 ELSE FlattenSeq([id \in DOMAIN order |-> BinNode(nodes, order, id)])]

-----------------------------------------------------------------------------
(* DumpHeader::load, import *)

IsAscending(s) == \A i, j \in DOMAIN s : i < j => s[i] < s[j]

Abs(n) == IF n < 0 THEN -n ELSE n

\* The validation in DumpHeader::load
IsValidHeader(h) ==
  /\ h.nsuppvars <= h.nvars
  /\ Len(h.ids) = h.nsuppvars /\ Len(h.permids) = h.nsuppvars
  /\ IsAscending(h.ids)
  /\ \A i \in DOMAIN h.ids : h.ids[i] < h.nvars
  /\ \A i \in DOMAIN h.permids : h.permids[i] < h.nvars
  /\ \A i, j \in DOMAIN h.permids : h.permids[i] = h.permids[j] => i = j
  /\ Len(h.orderedvarnames) = h.nvars /\ Len(h.suppvarnames) = h.nsuppvars
  /\ \A i \in DOMAIN h.suppvarnames : h.suppvarnames[i] = h.orderedvarnames[h.permids[i] + 1]
  /\ Len(h.rootids) = h.nroots
  /\ \A i \in DOMAIN h.rootids : h.rootids[i] # 0 /\ Abs(h.rootids[i]) <= h.nnodes

\* The variables that the command line tool passes to import: those named at the
\* levels in permids, top-down.
SupportVars(h, vars) ==
  LET InSupport(l) == \E i \in DOMAIN h.permids : h.permids[i] = l - 1
      used == SelectSeq([l \in 1 .. h.nvars |-> l], InSupport) IN
  [i \in DOMAIN used |-> vars[h.orderedvarnames[used[i]]]]

Signed(nodes, child) == IF child < 0 THEN complement(nodes[-child]) ELSE nodes[child]

\* One round of the loop in import_ascii.  support[i] is the level of the i-th
\* variable of the support.
AsciiStep(support, st, line) ==
  LET nodes == st.value
      children == {line.t, line.e}
      level == support[1 + CHOOSE i \in 0 .. Len(support) - 1 : Numeral(i) = line.text] IN
  IF ~st.ok \/ line.id # Len(nodes) + 1 THEN Failed
  ELSE IF 0 \in children THEN
    IF from_str(line.text) = {} THEN Failed
    ELSE Read(Append(nodes, CHOOSE n \in from_str(line.text) : TRUE), <<>>)
  ELSE IF \/ line.text \notin {Numeral(i) : i \in 0 .. Len(support) - 1}
          \/ \E c \in children : Abs(c) >= line.id \/ level >= Level(nodes[Abs(c)])
  THEN Failed
  ELSE Read(Append(nodes, reduce(level, Signed(nodes, line.t), Signed(nodes, line.e))), <<>>)

import_ascii(h, support) ==
  FoldLeft(LAMBDA st, line : AsciiStep(support, st, line), Read(<<>>, <<>>), h.nodes)

\* The number of the node that a then or else edge refers to
ChildId(in, id, code) ==
  LET number == decode_7bit(in)
      child == CASE code = Terminal   -> Read(1, in)
                 [] code = AbsoluteID -> number
                 [] code = RelativeID -> [number EXCEPT !.value = id - @]
                 [] code = Relative1  -> Read(id - 1, in) IN
  IF child.ok /\ child.value \in 1 .. id - 1 THEN child ELSE Failed

\* The variable of a node whose code is var_code and number vid
VarOf(support, var_code, vid, below) ==
  LET ofBelow == IF below = NumVars THEN NumVars
                 ELSE CHOOSE i \in 0 .. Len(support) - 1 : support[i + 1] = below IN
  IF var_code = AbsoluteID THEN vid ELSE ofBelow - vid

\* One round of the loop in import_bin
BinStep(support, st) ==
  LET nodes == st.value
      id    == Len(nodes) + 1
      code  == read_unescape(st.rest)
      var_code == (code.value \div 32) % 4
      vid   == IF var_code = Relative1 THEN Read(1, code.rest) ELSE decode_7bit(code.rest)
      tId   == ChildId(vid.rest, id, (code.value \div 8) % 4)
      eId   == ChildId(tId.rest, id, code.value % 4)
      t     == nodes[tId.value]
      e     == IF (code.value \div 4) % 2 = 1 THEN complement(nodes[eId.value])
               ELSE nodes[eId.value]
      var   == VarOf(support, var_code, vid.value, MinOf(Level(t), Level(e)))
      level == support[var + 1] IN
  IF ~st.ok \/ ~code.ok THEN Failed
  ELSE IF var_code = Terminal
  THEN Read(Append(nodes, CHOOSE n \in from_str("T") : TRUE), code.rest)
  ELSE IF ~vid.ok \/ ~tId.ok \/ ~eId.ok THEN Failed
  ELSE IF var \notin 0 .. Len(support) - 1 THEN Failed
  ELSE IF level >= Level(t) \/ level >= Level(e) THEN Failed
  ELSE Read(Append(nodes, reduce(level, t, e)), eId.rest)

import_bin(h, support) ==
  FoldLeft(LAMBDA st, id : BinStep(support, st), Read(<<>>, h.nodes), [id \in 1 .. h.nnodes |-> id])

\* The edges for the roots, or none if the file is rejected
import(h, support) ==
  LET nodes == IF h.ascii THEN import_ascii(h, support) ELSE import_bin(h, support) IN
  IF ~IsValidHeader(h) \/ Len(support) # Len(h.ids) \/ ~nodes.ok \/ nodes.rest # <<>>
  THEN <<>>
  ELSE [i \in DOMAIN h.rootids |-> Signed(nodes.value, h.rootids[i])]

=============================================================================
