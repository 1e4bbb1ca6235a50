------------------------ MODULE ParallelApplyProofs ------------------------
(***************************************************************************)
(* Proof that counts are exact, that nothing dangles and that every result *)
(* is right, for any number of clients, calls, split depths and variables  *)
(* and any diagram that clients start from.                                *)
(***************************************************************************)
EXTENDS ParallelApply, NumberTheorems, SequenceTheorems

-----------------------------------------------------------------------------
(* Diagrams.                                                               *)

\* The edges of a diagram with nodes D.
Edges(D) == D \cup Terminals

\* An edge is a terminal at the level NumVars or a node above it, and NoEdge is
\* neither.
LEMMA EdgeFacts ==
  ASSUME NEW D, IsDiagram(D), NEW e \in Edges(D)
  PROVE  /\ NumVars \in Nat /\ e[1] \in 0 .. NumVars /\ e # NoEdge
         /\ e \in D => /\ e[1] \in 0 .. NumVars - 1 /\ e = <<e[1], e[2], e[3]>>
                       /\ e[2] \in Edges(D) /\ e[3] \in Edges(D) /\ e[2] # e[3]
                       /\ e[2][1] > e[1] /\ e[3][1] > e[1]
         /\ e \in Terminals => e[1] = NumVars /\ e[2] \in BOOLEAN /\ e = Terminal(e[2])
         /\ e \in D <=> e \notin Terminals
         /\ IsInner(e) <=> e \in D
<1>1. NumVars \in Nat
  BY ParallelAssumption
<1>2. CASE e \in D
  <2>1. e \in Vars \X Edges(D) \X Edges(D)
    BY <1>2 DEF IsDiagram, Edges
  <2>2. e[1] \in 0 .. NumVars - 1 /\ e[2] \in Edges(D) /\ e[3] \in Edges(D)
    BY <2>1 DEF Vars
  <2>3. e = <<e[1], e[2], e[3]>> /\ e # NoEdge
    BY <2>1 DEF NoEdge
  <2>4. e[2] # e[3] /\ e[2][1] > e[1] /\ e[3][1] > e[1]
    BY <1>2 DEF IsDiagram, Level
  <2>5. e \notin Terminals
    <3>1. e[1] # NumVars
      BY <1>1, <2>2
    <3>2. False[1] = NumVars /\ True[1] = NumVars
      BY DEF Terminal, False, True
    <3> QED BY <3>1, <3>2 DEF Terminals
  <2> QED BY <1>1, <1>2, <2>2, <2>3, <2>4, <2>5 DEF IsInner
<1>3. CASE e \in Terminals
  <2>1. e[1] = NumVars /\ e[2] \in BOOLEAN /\ e = Terminal(e[2]) /\ e # NoEdge
    <3>1. \A b \in BOOLEAN : /\ Terminal(b)[1] = NumVars /\ Terminal(b)[2] = b
                             /\ Terminal(b) # NoEdge
      BY DEF Terminal, NoEdge
    <3>2. PICK b \in BOOLEAN : e = Terminal(b)
      BY <1>3, Zenon DEF Terminals, False, True
    <3> QED BY <3>1, <3>2
  <2>2. e \notin D
    <3> SUFFICES ASSUME e \in D PROVE FALSE
      OBVIOUS
    <3>1. e \in Vars \X Edges(D) \X Edges(D)
      BY DEF IsDiagram, Edges
    <3>2. e[1] \in 0 .. NumVars - 1
      BY <3>1 DEF Vars
    <3> QED BY <1>1, <2>1, <3>2
  <2> QED BY <1>1, <1>3, <2>1, <2>2 DEF IsInner
<1> QED BY <1>2, <1>3 DEF Edges

\* A path exists and stays in the diagram.
LEMMA PathFacts ==
  ASSUME NEW D, IsDiagram(D), NEW f \in Edges(D), NEW p
  PROVE  /\ Path(f, p) \in [0 .. NumVars -> Edges(D)] /\ Path(f, p)[0] = f
         /\ \A l \in 1 .. NumVars :
              Path(f, p)[l] = IF Level(Path(f, p)[l - 1]) # l - 1 THEN Path(f, p)[l - 1]
                              ELSE IF l - 1 \in p THEN Path(f, p)[l - 1][2]
                              ELSE Path(f, p)[l - 1][3]
<1> DEFINE F == [l \in 1 .. NumVars |-> [s \in Edges(D) |->
                   IF Level(s) # l - 1 THEN s ELSE IF l - 1 \in p THEN s[2] ELSE s[3]]]
           Solves(at) == at = [l \in 0 .. NumVars |->
             IF l = 0 THEN f
             ELSE IF Level(at[l - 1]) # l - 1 THEN at[l - 1]
             ELSE IF l - 1 \in p THEN at[l - 1][2] ELSE at[l - 1][3]]
<1>1. NumVars \in Nat
  BY ParallelAssumption
<1>2. ASSUME NEW l \in 1 .. NumVars, NEW s \in Edges(D) PROVE F[l][s] \in Edges(D)
  <2>1. CASE Level(s) # l - 1
    BY <2>1
  <2>2. CASE Level(s) = l - 1
    <3>1. s \in D
      BY <1>1, <2>2, EdgeFacts DEF Level, IsInner
    <3> QED BY <2>2, <3>1, EdgeFacts
  <2> QED BY <2>1, <2>2
<1>3. PICK g \in [0 .. NumVars -> Edges(D)] :
        g[0] = f /\ \A l \in 1 .. NumVars : g[l] = F[l][g[l - 1]]
  <2>1. StaysIn(F, NumVars, Edges(D))
    BY <1>2 DEF StaysIn
  <2> HIDE DEF F
  <2> QED BY <1>1, <2>1, RecursionUpTo
<1>4. ASSUME NEW l \in 1 .. NumVars
      PROVE  g[l] = IF Level(g[l - 1]) # l - 1 THEN g[l - 1]
                    ELSE IF l - 1 \in p THEN g[l - 1][2] ELSE g[l - 1][3]
  <2>1. g[l - 1] \in Edges(D)
    BY <1>1, <1>3
  <2> QED BY <1>3, <2>1
<1>5. Solves(g)
  <2>1. \A l \in 0 .. NumVars : l # 0 => l \in 1 .. NumVars
    BY <1>1
  <2> QED BY <1>3, <1>4, <2>1
<1>6. Path(f, p) = CHOOSE at : Solves(at)
  BY DEF Path
<1>7. Solves(Path(f, p))
  <2> HIDE DEF Solves
  <2> QED BY <1>5, <1>6
<1>8. PICK at : at = Path(f, p)
  OBVIOUS
<1>9. /\ at = [l \in 0 .. NumVars |-> at[l]] /\ at[0] = f
      /\ \A l \in 1 .. NumVars :
           at[l] = IF Level(at[l - 1]) # l - 1 THEN at[l - 1]
                   ELSE IF l - 1 \in p THEN at[l - 1][2] ELSE at[l - 1][3]
  <2>1. Solves(at)
    BY <1>7, <1>8
  <2>2. 0 \in 0 .. NumVars /\ \A l \in 1 .. NumVars : l \in 0 .. NumVars /\ l # 0
    BY <1>1
  <2>3. DOMAIN at = 0 .. NumVars /\ at = [l \in DOMAIN at |-> at[l]]
    BY <2>1
  <2>4. at[0] = f
    BY <2>1, <2>2
  <2>5. ASSUME NEW l \in 1 .. NumVars
        PROVE  at[l] = IF Level(at[l - 1]) # l - 1 THEN at[l - 1]
                       ELSE IF l - 1 \in p THEN at[l - 1][2] ELSE at[l - 1][3]
    BY <2>1, <2>2
  <2> QED BY <2>3, <2>4, <2>5
<1> HIDE DEF Solves
<1>10. at \in [0 .. NumVars -> Edges(D)]
  <2> DEFINE Good == {l \in 0 .. NumVars : at[l] \in Edges(D)}
  <2>1. 0 \in Good
    <3>1. at[0] \in Edges(D)
      BY <1>9
    <3> QED BY <1>1, <3>1
  <2>2. ASSUME NEW l \in 0 .. NumVars - 1, l \in Good PROVE l + 1 \in Good
    <3>1. l + 1 \in 1 .. NumVars /\ (l + 1) - 1 = l /\ at[l] \in Edges(D)
      BY <1>1, <2>2
    <3>2. at[l + 1] = F[l + 1][at[l]]
      BY <1>9, <3>1
    <3>3. at[l + 1] \in Edges(D)
      BY <1>2, <3>1, <3>2
    <3> QED BY <1>1, <3>1, <3>3
  <2>3. 0 .. NumVars \subseteq Good
    <3> HIDE DEF Good
    <3> QED BY <1>1, <2>1, <2>2, InductionUpTo
  <2> QED BY <1>9, <2>3
<1> QED BY <1>8, <1>9, <1>10

\* A path stays at its start down to the level of the start, and it is at level l or
\* below after l steps.
LEMMA PathStays ==
  ASSUME NEW D, IsDiagram(D), NEW f \in Edges(D), NEW p
  PROVE  /\ \A l \in 0 .. f[1] : Path(f, p)[l] = f
         /\ \A l \in 0 .. NumVars : Path(f, p)[l][1] >= l
<1>1. PICK at : at = Path(f, p)
  OBVIOUS
<1>2. /\ at \in [0 .. NumVars -> Edges(D)] /\ at[0] = f
      /\ \A l \in 1 .. NumVars :
           at[l] = IF Level(at[l - 1]) # l - 1 THEN at[l - 1]
                   ELSE IF l - 1 \in p THEN at[l - 1][2] ELSE at[l - 1][3]
  BY <1>1, PathFacts
<1>3. NumVars \in Nat /\ f[1] \in 0 .. NumVars
  BY EdgeFacts
<1>4. ASSUME NEW l \in 0 .. NumVars - 1
      PROVE  /\ at[l] \in Edges(D)
             /\ at[l + 1] = IF at[l][1] # l THEN at[l] ELSE IF l \in p THEN at[l][2] ELSE at[l][3]
  <2>1. l + 1 \in 1 .. NumVars /\ (l + 1) - 1 = l /\ l \in 0 .. NumVars
    BY <1>3
  <2> QED BY <1>2, <2>1 DEF Level
<1>5. \A l \in 0 .. f[1] : at[l] = f
  <2> DEFINE Good == {l \in 0 .. f[1] : at[l] = f}
  <2>1. 0 \in Good
    <3>1. at[0] = f
      BY <1>2
    <3> QED BY <1>3, <3>1
  <2>2. ASSUME NEW l \in 0 .. f[1] - 1, l \in Good PROVE l + 1 \in Good
    <3>1. l \in 0 .. NumVars - 1 /\ l + 1 \in 0 .. f[1] /\ f[1] # l
      BY <1>3
    <3>2. at[l + 1] = f
      BY <1>4, <2>2, <3>1
    <3> QED BY <3>1, <3>2
  <2>3. 0 .. f[1] \subseteq Good
    <3> HIDE DEF Good
    <3>1. f[1] \in Nat
      BY <1>3
    <3>2. PICK k \in Nat : k = f[1]
      BY <3>1
    <3> QED BY <2>1, <2>2, <3>2, InductionUpTo
  <2> QED BY <2>3
<1>6. \A l \in 0 .. NumVars : at[l][1] >= l
  <2> DEFINE Good == {l \in 0 .. NumVars : at[l][1] >= l}
  <2>1. 0 \in Good
    <3>1. at[0][1] >= 0
      BY <1>2, <1>3
    <3> QED BY <1>3, <3>1
  <2>2. ASSUME NEW l \in 0 .. NumVars - 1, l \in Good PROVE l + 1 \in Good
    <3>1. l + 1 \in 0 .. NumVars /\ at[l][1] >= l /\ at[l] \in Edges(D) /\ at[l][1] \in 0 .. NumVars
      BY <1>3, <1>4, <2>2, EdgeFacts
    <3>2. CASE at[l][1] # l
      <4>1. at[l + 1] = at[l]
        BY <1>4, <3>2
      <4>2. at[l + 1][1] >= l + 1
        BY <3>1, <3>2, <4>1
      <4> QED BY <3>1, <4>2
    <3>3. CASE at[l][1] = l
      <4>1. PICK n : n = at[l]
        OBVIOUS
      <4>2. n \in Edges(D) /\ n[1] = l /\ IsInner(n)
        BY <1>3, <3>1, <3>3, <4>1 DEF IsInner
      <4>3. n \in D
        BY <4>2, EdgeFacts
      <4>4. n[2][1] > l /\ n[3][1] > l /\ n[2][1] \in 0 .. NumVars /\ n[3][1] \in 0 .. NumVars
        BY <4>2, <4>3, EdgeFacts
      <4>5. at[l + 1] = n[2] \/ at[l + 1] = n[3]
        BY <1>4, <3>3, <4>1
      <4>6. at[l + 1][1] >= l + 1
        BY <4>4, <4>5
      <4> QED BY <3>1, <4>6
    <3> QED BY <3>2, <3>3
  <2>3. 0 .. NumVars \subseteq Good
    <3> HIDE DEF Good
    <3> QED BY <1>3, <2>1, <2>2, InductionUpTo
  <2> QED BY <2>3
<1> QED BY <1>1, <1>5, <1>6

\* A path ends at a terminal.
LEMMA ValueType ==
  ASSUME NEW D, IsDiagram(D), NEW f \in Edges(D), NEW p
  PROVE  /\ Value(f, p) \in BOOLEAN
         /\ f \in Terminals => Value(f, p) = f[2]
<1>1. PICK at : at = Path(f, p)
  OBVIOUS
<1>2. NumVars \in Nat /\ NumVars \in 0 .. NumVars
  BY EdgeFacts
<1>3. at[NumVars] \in Edges(D) /\ at[NumVars][1] >= NumVars
  BY <1>1, <1>2, PathFacts, PathStays
<1>4. at[NumVars] \in Terminals
  <2>1. PICK n : n = at[NumVars]
    OBVIOUS
  <2>2. n \in Edges(D) /\ n[1] >= NumVars /\ n[1] \in 0 .. NumVars
    BY <1>3, <2>1, EdgeFacts
  <2>3. ~IsInner(n)
    BY <1>2, <2>2 DEF IsInner
  <2> QED BY <2>1, <2>2, <2>3, EdgeFacts
<1>5. Value(f, p) \in BOOLEAN
  <2>1. PICK n : n = at[NumVars]
    OBVIOUS
  <2>2. n \in Edges(D) /\ n \in Terminals
    BY <1>3, <1>4, <2>1
  <2>3. n[2] \in BOOLEAN
    BY <2>2, EdgeFacts
  <2> QED BY <1>1, <2>1, <2>3 DEF Value
<1>6. ASSUME f \in Terminals PROVE Value(f, p) = f[2]
  <2>1. f[1] = NumVars
    BY <1>6, EdgeFacts
  <2>2. Path(f, p)[NumVars] = f
    BY <1>2, <2>1, PathStays
  <2> QED BY <2>2 DEF Value
<1> QED BY <1>5, <1>6

\* The value of a node is that of the child that the point selects.
LEMMA ValueOfNode ==
  ASSUME NEW D, IsDiagram(D), NEW f \in D, NEW p, NEW c, c = IF f[1] \in p THEN f[2] ELSE f[3]
  PROVE  Value(f, p) = Value(c, p)
<1>1. PICK a, b, l0 : a = Path(f, p) /\ b = Path(c, p) /\ l0 = f[1]
  OBVIOUS
<1>2. f \in Edges(D) /\ c \in Edges(D) /\ l0 \in 0 .. NumVars - 1 /\ c[1] > l0
  <2>1. f \in Edges(D)
    BY DEF Edges
  <2> QED BY <1>1, <2>1, EdgeFacts
<1>3. c[1] \in 0 .. NumVars /\ NumVars \in Nat
  BY <1>2, EdgeFacts
<1>4. \A l \in 1 .. NumVars :
        a[l] = IF Level(a[l - 1]) # l - 1 THEN a[l - 1]
               ELSE IF l - 1 \in p THEN a[l - 1][2] ELSE a[l - 1][3]
  BY <1>1, <1>2, PathFacts
<1>5. \A l \in 1 .. NumVars :
        b[l] = IF Level(b[l - 1]) # l - 1 THEN b[l - 1]
               ELSE IF l - 1 \in p THEN b[l - 1][2] ELSE b[l - 1][3]
  BY <1>1, <1>2, PathFacts
<1>6. a[l0 + 1] = c
  <2>1. l0 + 1 \in 1 .. NumVars /\ (l0 + 1) - 1 = l0 /\ l0 \in 0 .. l0
    BY <1>2, <1>3
  <2>2. a[l0] = f
    BY <1>1, <1>2, <2>1, PathStays
  <2>3. a[l0 + 1] = IF Level(a[l0]) # l0 THEN a[l0]
                    ELSE IF l0 \in p THEN a[l0][2] ELSE a[l0][3]
    BY <1>4, <2>1
  <2> QED BY <1>1, <2>2, <2>3 DEF Level
<1>7. b[l0 + 1] = c
  <2>1. l0 + 1 \in 0 .. c[1]
    BY <1>2, <1>3
  <2> QED BY <1>1, <1>2, <2>1, PathStays
<1>8. a[NumVars] = b[NumVars]
  <2> DEFINE Good == {l \in 0 .. NumVars : l >= l0 + 1 => a[l] = b[l]}
  <2>1. 0 \in Good
    BY <1>2, <1>3
  <2>2. ASSUME NEW l \in 0 .. NumVars - 1, l \in Good PROVE l + 1 \in Good
    <3>1. l + 1 \in 1 .. NumVars /\ (l + 1) - 1 = l /\ l + 1 \in 0 .. NumVars /\ l0 \in Nat /\ l \in Nat
      BY <1>2, <1>3
    <3>2. CASE l + 1 < l0 + 1
      BY <3>1, <3>2
    <3>3. CASE l = l0
      <4>1. a[l + 1] = b[l + 1]
        BY <1>6, <1>7, <3>3
      <4> QED BY <3>1, <4>1
    <3>4. CASE l >= l0 + 1
      <4>1. a[l] = b[l]
        BY <2>2, <3>4
      <4>2. a[l + 1] = b[l + 1]
        BY <1>4, <1>5, <3>1, <4>1
      <4> QED BY <3>1, <4>2
    <3> QED BY <3>1, <3>2, <3>3, <3>4
  <2>3. 0 .. NumVars \subseteq Good
    <3> HIDE DEF Good
    <3> QED BY <1>3, <2>1, <2>2, InductionUpTo
  <2>4. NumVars \in Good /\ NumVars >= l0 + 1
    BY <1>2, <1>3, <2>3
  <2> QED BY <2>4
<1> QED BY <1>1, <1>8 DEF Value

-----------------------------------------------------------------------------
(* Terminal cases.                                                         *)

\* The values of an edge: what the provers need to know of it.
Known(f) ==
  /\ \A p \in SUBSET Vars : Value(f, p) \in BOOLEAN
  /\ ~IsInner(f) => f = False \/ f = True
  /\ f = False => \A p \in SUBSET Vars : Value(f, p) = FALSE
  /\ f = True => \A p \in SUBSET Vars : Value(f, p) = TRUE

\* c decides the operator with values v on operands F: it is done with an operand or
\* a terminal, leaves the negation to an operand, or recurses.
Decides(c, F, f, v) ==
  \/ c = Binary /\ IsInner(f)
  \/ \E x \in F \cup Terminals : c = Done(x) /\ \A p \in SUBSET Vars : Value(x, p) <=> v[p]
  \/ \E x \in F : c = Not(x) /\ \A p \in SUBSET Vars : ~Value(x, p) <=> v[p]

\* Edges are known.
LEMMA EdgesKnown ==
  ASSUME NEW D, IsDiagram(D), NEW f \in Edges(D)
  PROVE  Known(f)
<1>1. \A p \in SUBSET Vars : Value(f, p) \in BOOLEAN
  BY ValueType
<1>2. ~IsInner(f) => f = False \/ f = True
  <2>1. ~IsInner(f) => f \in Terminals
    BY EdgeFacts
  <2> QED BY <2>1 DEF Terminals
<1>3. ASSUME f \in Terminals, NEW p \in SUBSET Vars PROVE Value(f, p) = f[2]
  BY <1>3, ValueType
<1>4. False[2] = FALSE /\ True[2] = TRUE /\ False \in Terminals /\ True \in Terminals
  BY DEF False, True, Terminal, Terminals
<1>5. f = False => \A p \in SUBSET Vars : Value(f, p) = FALSE
  BY <1>3, <1>4, Zenon
<1>6. f = True => \A p \in SUBSET Vars : Value(f, p) = TRUE
  BY <1>3, <1>4, Zenon
<1> QED BY <1>1, <1>2, <1>5, <1>6, Zenon DEF Known

\* Terminals are known.
LEMMA TerminalsKnown ==
  /\ Known(False) /\ Known(True) /\ False # True /\ ~IsInner(False) /\ ~IsInner(True)
  /\ Terminal(FALSE) = False /\ Terminal(TRUE) = True
<1>1. False \in Edges(Nodes) /\ True \in Edges(Nodes) /\ IsDiagram(Nodes)
  BY ParallelAssumption DEF Edges, Terminals
<1>2. Known(False) /\ Known(True)
  BY <1>1, EdgesKnown
<1>3. False # True /\ Terminal(FALSE) = False /\ Terminal(TRUE) = True
  BY DEF False, True, Terminal
<1>4. ~IsInner(False) /\ ~IsInner(True)
  BY ParallelAssumption DEF False, True, Terminal, IsInner
<1> QED BY <1>2, <1>3, <1>4

\* The cases of and, or, nand and nor.
LEMMA LatticeDecides ==
  ASSUME NEW f, NEW g, Known(f), Known(g), NEW v, NEW absorbing \in BOOLEAN, NEW negated \in BOOLEAN,
         \A p \in SUBSET Vars :
           v[p] <=> IF absorbing THEN (Value(f, p) \/ Value(g, p)) # negated
                                 ELSE (Value(f, p) /\ Value(g, p)) # negated
  PROVE  Decides(TerminalLattice(absorbing, negated, f, g), {f, g}, f, v)
<1> DEFINE c == TerminalLattice(absorbing, negated, f, g)
           Pos(x) == IF negated THEN Not(x) ELSE Done(x)
           w(p) == IF absorbing THEN Value(f, p) \/ Value(g, p) ELSE Value(f, p) /\ Value(g, p)
<1> SUFFICES Decides(c, {f, g}, f, v)
  OBVIOUS
<1>0. ASSUME NEW x \in {f, g}, c = Pos(x), \A p \in SUBSET Vars : Value(x, p) <=> w(p)
      PROVE  Decides(c, {f, g}, f, v)
  <2>1. CASE negated
    <3>1. c = Not(x) /\ \A p \in SUBSET Vars : ~Value(x, p) <=> v[p]
      BY <1>0, <2>1, Zenon
    <3> QED BY <3>1, Zenon DEF Decides
  <2>2. CASE ~negated
    <3>1. c = Done(x) /\ \A p \in SUBSET Vars : Value(x, p) <=> v[p]
      BY <1>0, <2>2, Zenon
    <3> QED BY <3>1, Zenon DEF Decides
  <2> QED BY <2>1, <2>2
<1>1. CASE f = g
  <2>1. c = Pos(f)
    BY <1>1 DEF TerminalLattice
  <2>2. \A p \in SUBSET Vars : Value(f, p) <=> w(p)
    BY <1>1, Zenon
  <2> HIDE DEF c, Pos, w
  <2> QED BY <1>0, <2>1, <2>2
<1>2. CASE f # g /\ IsInner(f) /\ IsInner(g)
  BY <1>2 DEF TerminalLattice, Decides
<1>3. CASE f # g /\ ~(IsInner(f) /\ IsInner(g)) /\ Terminal(absorbing) \in {f, g}
  <2>1. c = Done(Terminal(absorbing # negated))
    BY <1>3, Zenon DEF TerminalLattice
  <2>2. \A p \in SUBSET Vars : Value(Terminal(absorbing # negated), p) <=> v[p]
    <3>1. CASE absorbing = TRUE /\ negated = TRUE
      BY <1>3, <3>1, TerminalsKnown, Zenon DEF Known
    <3>2. CASE absorbing = TRUE /\ negated = FALSE
      BY <1>3, <3>2, TerminalsKnown, Zenon DEF Known
    <3>3. CASE absorbing = FALSE /\ negated = TRUE
      BY <1>3, <3>3, TerminalsKnown, Zenon DEF Known
    <3>4. CASE absorbing = FALSE /\ negated = FALSE
      BY <1>3, <3>4, TerminalsKnown, Zenon DEF Known
    <3> QED BY <3>1, <3>2, <3>3, <3>4
  <2>3. Terminal(absorbing # negated) \in Terminals
    BY Zenon DEF Terminals, False, True
  <2> QED BY <2>1, <2>2, <2>3, Zenon DEF Decides
<1>4. CASE f # g /\ Terminal(absorbing) \notin {f, g} /\ ~IsInner(f)
  <2>1. c = Pos(g)
    BY <1>4, Zenon DEF TerminalLattice
  <2>2. \A p \in SUBSET Vars : Value(g, p) <=> w(p)
    <3>1. CASE absorbing = TRUE
      <4>1. f = False
        BY <1>4, <3>1, TerminalsKnown, Zenon DEF Known
      <4> QED BY <3>1, <4>1, Zenon DEF Known
    <3>2. CASE absorbing = FALSE
      <4>1. f = True
        BY <1>4, <3>2, TerminalsKnown, Zenon DEF Known
      <4> QED BY <3>2, <4>1, Zenon DEF Known
    <3> QED BY <3>1, <3>2
  <2> HIDE DEF c, Pos, w
  <2> QED BY <1>0, <2>1, <2>2
<1>5. CASE f # g /\ Terminal(absorbing) \notin {f, g} /\ IsInner(f) /\ ~IsInner(g)
  <2>1. c = Pos(f)
    BY <1>5, Zenon DEF TerminalLattice
  <2>2. \A p \in SUBSET Vars : Value(f, p) <=> w(p)
    <3>1. CASE absorbing = TRUE
      <4>1. g = False
        BY <1>5, <3>1, TerminalsKnown, Zenon DEF Known
      <4> QED BY <3>1, <4>1, Zenon DEF Known
    <3>2. CASE absorbing = FALSE
      <4>1. g = True
        BY <1>5, <3>2, TerminalsKnown, Zenon DEF Known
      <4> QED BY <3>2, <4>1, Zenon DEF Known
    <3> QED BY <3>1, <3>2
  <2> HIDE DEF c, Pos, w
  <2> QED BY <1>0, <2>1, <2>2
<1> QED BY <1>1, <1>2, <1>3, <1>4, <1>5

\* The cases of xor and equiv.
LEMMA ParityDecides ==
  ASSUME NEW f, NEW g, Known(f), Known(g), NEW v, NEW neutral \in BOOLEAN,
         \A p \in SUBSET Vars : v[p] <=> IF neutral THEN Value(f, p) = Value(g, p)
                                                    ELSE Value(f, p) # Value(g, p)
  PROVE  Decides(TerminalParity(neutral, f, g), {f, g}, f, v)
<1> DEFINE c == TerminalParity(neutral, f, g)
<1> SUFFICES Decides(c, {f, g}, f, v)
  OBVIOUS
<1>0. Terminal(neutral) = IF neutral THEN True ELSE False
  BY TerminalsKnown, Zenon
<1>1. CASE f = g
  <2>1. c = Done(Terminal(neutral))
    BY <1>1 DEF TerminalParity
  <2>2. \A p \in SUBSET Vars : Value(Terminal(neutral), p) <=> v[p]
    BY <1>0, <1>1, TerminalsKnown, Zenon DEF Known
  <2>3. Terminal(neutral) \in Terminals
    BY <1>0, Zenon DEF Terminals
  <2> QED BY <2>1, <2>2, <2>3, Zenon DEF Decides
<1>2. CASE f # g /\ IsInner(f) /\ IsInner(g)
  BY <1>2 DEF TerminalParity, Decides
<1>3. CASE f # g /\ ~(IsInner(f) /\ IsInner(g)) /\ f = Terminal(neutral)
  <2>1. c = Done(g)
    BY <1>3, Zenon DEF TerminalParity
  <2>2. \A p \in SUBSET Vars : Value(g, p) <=> v[p]
    BY <1>0, <1>3, Zenon DEF Known
  <2> QED BY <2>1, <2>2, Zenon DEF Decides
<1>4. CASE f # g /\ ~(IsInner(f) /\ IsInner(g)) /\ f # Terminal(neutral) /\ g = Terminal(neutral)
  <2>1. c = Done(f)
    BY <1>4, Zenon DEF TerminalParity
  <2>2. \A p \in SUBSET Vars : Value(f, p) <=> v[p]
    BY <1>0, <1>4, Zenon DEF Known
  <2> QED BY <2>1, <2>2, Zenon DEF Decides
<1>5. CASE f # g /\ f # Terminal(neutral) /\ g # Terminal(neutral) /\ ~IsInner(f)
  <2>1. c = Not(g)
    BY <1>5, Zenon DEF TerminalParity
  <2>2. f = IF neutral THEN False ELSE True
    BY <1>0, <1>5, Zenon DEF Known
  <2>3. \A p \in SUBSET Vars : ~Value(g, p) <=> v[p]
    BY <2>2, Zenon DEF Known
  <2> QED BY <2>1, <2>3, Zenon DEF Decides
<1>6. CASE f # g /\ f # Terminal(neutral) /\ g # Terminal(neutral) /\ IsInner(f) /\ ~IsInner(g)
  <2>1. c = Not(f)
    BY <1>6, Zenon DEF TerminalParity
  <2>2. g = IF neutral THEN False ELSE True
    BY <1>0, <1>6, Zenon DEF Known
  <2>3. \A p \in SUBSET Vars : ~Value(f, p) <=> v[p]
    BY <2>2, Zenon DEF Known
  <2> QED BY <2>1, <2>3, Zenon DEF Decides
<1> QED BY <1>1, <1>2, <1>3, <1>4, <1>5, <1>6

\* The cases of imp and imp_strict.
LEMMA ImplicationDecides ==
  ASSUME NEW f, NEW g, Known(f), Known(g), NEW v, NEW b \in BOOLEAN,
         \A p \in SUBSET Vars : v[p] <=> IF b THEN Value(f, p) => Value(g, p)
                                              ELSE ~Value(f, p) /\ Value(g, p)
  PROVE  Decides(TerminalImplication(b, f, g), {f, g}, f, v)
<1> DEFINE c == TerminalImplication(b, f, g)
<1> SUFFICES Decides(c, {f, g}, f, v)
  OBVIOUS
<1>0. /\ Terminal(b) = IF b THEN True ELSE False
      /\ Terminal(~b) = IF b THEN False ELSE True
  BY TerminalsKnown, Zenon
<1>1. Terminal(b) \in Terminals
  BY <1>0, Zenon DEF Terminals
<1>2. CASE f = g
  <2>1. c = Done(Terminal(b))
    BY <1>2 DEF TerminalImplication
  <2>2. \A p \in SUBSET Vars : Value(Terminal(b), p) <=> v[p]
    BY <1>0, <1>2, TerminalsKnown, Zenon DEF Known
  <2> QED BY <1>1, <2>1, <2>2, Zenon DEF Decides
<1>3. CASE f # g /\ IsInner(f) /\ IsInner(g)
  BY <1>3 DEF TerminalImplication, Decides
<1>4. CASE f # g /\ ~(IsInner(f) /\ IsInner(g)) /\ (f = Terminal(~b) \/ g = Terminal(b))
  <2>1. c = Done(Terminal(b))
    BY <1>4, Zenon DEF TerminalImplication
  <2>2. \A p \in SUBSET Vars : Value(Terminal(b), p) <=> v[p]
    BY <1>0, <1>4, TerminalsKnown, Zenon DEF Known
  <2> QED BY <1>1, <2>1, <2>2, Zenon DEF Decides
<1>5. CASE f # g /\ f # Terminal(~b) /\ g # Terminal(b) /\ ~IsInner(f)
  <2>1. c = Done(g)
    BY <1>5, Zenon DEF TerminalImplication
  <2>2. f = IF b THEN True ELSE False
    BY <1>0, <1>5, Zenon DEF Known
  <2>3. \A p \in SUBSET Vars : Value(g, p) <=> v[p]
    <3>1. CASE b = TRUE
      BY <2>2, <3>1, Zenon DEF Known
    <3>2. CASE b = FALSE
      <4>1. f = False
        BY <2>2, <3>2, Zenon
      <4> QED BY <3>2, <4>1, Zenon DEF Known
    <3> QED BY <3>1, <3>2
  <2> QED BY <2>1, <2>3, Zenon DEF Decides
<1>6. CASE f # g /\ f # Terminal(~b) /\ g # Terminal(b) /\ IsInner(f) /\ ~IsInner(g)
  <2>1. c = Not(f)
    BY <1>6, Zenon DEF TerminalImplication
  <2>2. g = IF b THEN False ELSE True
    BY <1>0, <1>6, Zenon DEF Known
  <2>3. \A p \in SUBSET Vars : ~Value(f, p) <=> v[p]
    <3>1. CASE b = TRUE
      BY <2>2, <3>1, Zenon DEF Known
    <3>2. CASE b = FALSE
      BY <2>2, <3>2, Zenon DEF Known
    <3> QED BY <3>1, <3>2
  <2> QED BY <2>1, <2>3, Zenon DEF Decides
<1> QED BY <1>2, <1>3, <1>4, <1>5, <1>6

-----------------------------------------------------------------------------
(* Operators and operands.                                                 *)

\* e is the diagram of the operator on args.
Right(e, op, args) ==
  /\ Level(e) >= LevelOf(args)
  /\ \A p \in SUBSET Vars : Value(e, p) <=> Meaning(op, args, p)

\* Two calls have the same result, and the first is not above the second.
Same(op, args, op2, args2) ==
  /\ LevelOf(args) >= LevelOf(args2)
  /\ \A p \in SUBSET Vars : Meaning(op, args, p) <=> Meaning(op2, args2, p)

\* The operands of an operator are one, two or three.
LEMMA OperandsFacts ==
  ASSUME NEW op \in Operators, NEW S
  PROVE  /\ op = "not" => Operands(op, S) = [1 .. 1 -> S]
         /\ op = "ite" => Operands(op, S) = [1 .. 3 -> S]
         /\ op \in Binaries => op # "not" /\ op # "ite" /\ Operands(op, S) = [1 .. 2 -> S]
         /\ op = "not" \/ op = "ite" \/ op \in Binaries
<1>1. "not" \notin Binaries /\ "ite" \notin Binaries
  BY DEF Binaries, Commutative
<1>2. op = "not" \/ op = "ite" \/ op \in Binaries
  BY DEF Operators
<1>3. op = "not" => Operands(op, S) = [1 .. 1 -> S]
  BY <1>1 DEF Operands
<1>4. op = "ite" => Operands(op, S) = [1 .. 3 -> S]
  BY <1>1 DEF Operands
<1>5. op \in Binaries => op # "not" /\ op # "ite" /\ Operands(op, S) = [1 .. 2 -> S]
  BY <1>1 DEF Operands
<1> QED BY <1>2, <1>3, <1>4, <1>5

\* Operands are a nonempty sequence of edges.
LEMMA OperandsSequence ==
  ASSUME NEW op \in Operators, NEW S, NEW args \in Operands(op, S)
  PROVE  \E k \in {1, 2, 3} : Operands(op, S) = [1 .. k -> S] /\ args \in [1 .. k -> S]
BY OperandsFacts

\* LevelOf returns the level of the topmost operand.
LEMMA LevelOfFacts ==
  ASSUME NEW D, IsDiagram(D), NEW k \in {1, 2, 3}, NEW args \in [1 .. k -> Edges(D)]
  PROVE  /\ LevelOf(args) \in 0 .. NumVars
         /\ \A i \in 1 .. k : LevelOf(args) <= args[i][1]
         /\ \E i \in 1 .. k : LevelOf(args) = args[i][1]
<1> DEFINE T == {Level(args[i]) : i \in DOMAIN args}
<1>1. \A i \in 1 .. k : args[i][1] \in 0 .. NumVars /\ NumVars \in Nat
  <2> SUFFICES ASSUME NEW i \in 1 .. k PROVE args[i][1] \in 0 .. NumVars /\ NumVars \in Nat
    OBVIOUS
  <2>1. PICK e \in Edges(D) : e = args[i]
    OBVIOUS
  <2> QED BY <2>1, EdgeFacts
<1>2. T \in SUBSET Nat /\ T # {} /\ DOMAIN args = 1 .. k
  <2>1. 1 \in DOMAIN args /\ DOMAIN args = 1 .. k
    OBVIOUS
  <2>2. Level(args[1]) \in T
    BY <2>1
  <2>3. ASSUME NEW i \in 1 .. k PROVE Level(args[i]) \in Nat
    BY <1>1 DEF Level
  <2> QED BY <2>1, <2>2, <2>3
<1>3. \E l \in T : \A i \in DOMAIN args : l <= Level(args[i])
  <2>1. PICK m \in T : \A t \in T : m <= t
    <3> HIDE DEF T
    <3> QED BY <1>2, LeastNatural
  <2> QED BY <2>1
<1>4. LevelOf(args) \in T /\ \A i \in DOMAIN args : LevelOf(args) <= Level(args[i])
  BY <1>3 DEF LevelOf
<1>5. PICK l : l = LevelOf(args)
  OBVIOUS
<1>6. \E i \in 1 .. k : l = args[i][1]
  BY <1>2, <1>4, <1>5 DEF Level
<1>7. \A i \in 1 .. k : l <= args[i][1]
  BY <1>2, <1>4, <1>5 DEF Level
<1> QED BY <1>1, <1>5, <1>6, <1>7

\* With fewer operands LevelOf is not above.
LEMMA LevelOfSome ==
  ASSUME NEW D, IsDiagram(D), NEW k \in {1, 2, 3}, NEW args \in [1 .. k -> Edges(D)],
         NEW j \in {1, 2, 3}, NEW some \in [1 .. j -> Edges(D)],
         \A i \in 1 .. j : \E m \in 1 .. k : some[i] = args[m]
  PROVE  LevelOf(some) >= LevelOf(args)
<1>0. NumVars \in Nat
  BY ParallelAssumption
<1>1. /\ LevelOf(args) \in 0 .. NumVars
      /\ \A i \in 1 .. k : LevelOf(args) <= args[i][1]
  BY LevelOfFacts, Zenon
<1>2. /\ LevelOf(some) \in 0 .. NumVars
      /\ \E i \in 1 .. j : LevelOf(some) = some[i][1]
  BY LevelOfFacts, Zenon
<1>3. PICK a, b : a = LevelOf(args) /\ b = LevelOf(some)
  OBVIOUS
<1>4. PICK i \in 1 .. j : b = some[i][1]
  BY <1>2, <1>3
<1>5. PICK m \in 1 .. k : some[i] = args[m]
  OBVIOUS
<1>6. a <= args[m][1] /\ a \in Int /\ b \in Int
  BY <1>0, <1>1, <1>2, <1>3
<1> QED BY <1>3, <1>4, <1>5, <1>6

\* What a binary operator means.
LEMMA BinaryMeaning ==
  ASSUME NEW args, DOMAIN args = 1 .. 2, NEW p
  PROVE  /\ Meaning("and", args, p) = (Value(args[1], p) /\ Value(args[2], p))
         /\ Meaning("or", args, p) = (Value(args[1], p) \/ Value(args[2], p))
         /\ Meaning("nand", args, p) = ~(Value(args[1], p) /\ Value(args[2], p))
         /\ Meaning("nor", args, p) = ~(Value(args[1], p) \/ Value(args[2], p))
         /\ Meaning("xor", args, p) = (Value(args[1], p) # Value(args[2], p))
         /\ Meaning("equiv", args, p) = (Value(args[1], p) = Value(args[2], p))
         /\ Meaning("imp", args, p) = (Value(args[1], p) => Value(args[2], p))
         /\ Meaning("imp_strict", args, p) = (~Value(args[1], p) /\ Value(args[2], p))
<1>1. PICK v : v = [i \in DOMAIN args |-> Value(args[i], p)]
  OBVIOUS
<1>2. v[1] = Value(args[1], p) /\ v[2] = Value(args[2], p)
  BY <1>1
<1>3. \A op : Meaning(op, args, p) = Combined(op, v)
  BY <1>1 DEF Meaning
<1>4. Combined("and", v) = (v[1] /\ v[2])
  BY DEF Combined
<1>5. Combined("or", v) = (v[1] \/ v[2])
  BY DEF Combined
<1>6. Combined("nand", v) = ~(v[1] /\ v[2])
  BY DEF Combined
<1>7. Combined("nor", v) = ~(v[1] \/ v[2])
  BY DEF Combined
<1>8. Combined("xor", v) = (v[1] # v[2])
  BY DEF Combined
<1>9. Combined("equiv", v) = (v[1] = v[2])
  BY DEF Combined
<1>10. Combined("imp", v) = (v[1] => v[2])
  BY DEF Combined
<1>11. Combined("imp_strict", v) = (~v[1] /\ v[2])
  BY DEF Combined
<1> QED BY <1>2, <1>3, <1>4, <1>5, <1>6, <1>7, <1>8, <1>9, <1>10, <1>11, Zenon

\* What not and ite mean.
LEMMA OtherMeaning ==
  ASSUME NEW args, NEW p
  PROVE  /\ DOMAIN args = 1 .. 1 => Meaning("not", args, p) = ~Value(args[1], p)
         /\ DOMAIN args = 1 .. 3 =>
              Meaning("ite", args, p) = IF Value(args[1], p) THEN Value(args[2], p)
                                                             ELSE Value(args[3], p)
<1>1. PICK v : v = [i \in DOMAIN args |-> Value(args[i], p)]
  OBVIOUS
<1>2. \A op : Meaning(op, args, p) = Combined(op, v)
  BY <1>1 DEF Meaning
<1>3. Combined("not", v) = ~v[1]
  BY DEF Combined
<1>4. Combined("ite", v) = IF v[1] THEN v[2] ELSE v[3]
  BY DEF Combined
<1>5. DOMAIN args = 1 .. 1 => v[1] = Value(args[1], p)
  BY <1>1
<1>6. DOMAIN args = 1 .. 3 =>
        v[1] = Value(args[1], p) /\ v[2] = Value(args[2], p) /\ v[3] = Value(args[3], p)
  BY <1>1
<1> QED BY <1>2, <1>3, <1>4, <1>5, <1>6, Zenon

\* What a terminal case leaves to do: c is the result, another call with the same
\* result, or a recursion at a level above the terminals.
Outcome(c, op, args, D) ==
  \/ \E x \in Edges(D) : c = Done(x) /\ Right(x, op, args)
  \/ \E x \in Edges(D) : c = Not(x) /\ Same("not", <<x>>, op, args)
  \/ \E o \in Binaries : \E x \in Edges(D), y \in Edges(D) :
       c = Apply(o, x, y) /\ Same(o, <<x, y>>, op, args)
  \/ c \in {Binary, Ternary} /\ LevelOf(args) < NumVars

\* The terminal cases of binary operators are right.
LEMMA BinaryDecides ==
  ASSUME NEW op \in Binaries, NEW args, DOMAIN args = 1 .. 2, NEW f, NEW g,
         f = args[1], g = args[2], Known(f), Known(g),
         NEW v, v = [p \in SUBSET Vars |-> Meaning(op, args, p)]
  PROVE  Decides(terminal_bin(op, f, g), {f, g}, f, v)
<1>1. \A p \in SUBSET Vars : v[p] = Meaning(op, args, p)
  OBVIOUS
<1>2. \A p \in SUBSET Vars : Value(f, p) \in BOOLEAN /\ Value(g, p) \in BOOLEAN
  BY Zenon DEF Known
<1>3. CASE op = "and"
  <2>1. \A p \in SUBSET Vars : v[p] <=> IF FALSE THEN (Value(f, p) \/ Value(g, p)) # FALSE
                                                ELSE (Value(f, p) /\ Value(g, p)) # FALSE
    BY <1>1, <1>3, BinaryMeaning, Zenon
  <2>2. terminal_bin(op, f, g) = TerminalLattice(FALSE, FALSE, f, g)
    BY <1>3 DEF terminal_bin
  <2> QED BY <2>1, <2>2, LatticeDecides, Zenon
<1>4. CASE op = "or"
  <2>1. \A p \in SUBSET Vars : v[p] <=> IF TRUE THEN (Value(f, p) \/ Value(g, p)) # FALSE
                                                ELSE (Value(f, p) /\ Value(g, p)) # FALSE
    BY <1>1, <1>4, BinaryMeaning, Zenon
  <2>2. terminal_bin(op, f, g) = TerminalLattice(TRUE, FALSE, f, g)
    BY <1>4 DEF terminal_bin
  <2> QED BY <2>1, <2>2, LatticeDecides, Zenon
<1>5. CASE op = "nand"
  <2>1. \A p \in SUBSET Vars : v[p] <=> IF FALSE THEN (Value(f, p) \/ Value(g, p)) # TRUE
                                                ELSE (Value(f, p) /\ Value(g, p)) # TRUE
    BY <1>1, <1>5, BinaryMeaning, Zenon
  <2>2. terminal_bin(op, f, g) = TerminalLattice(FALSE, TRUE, f, g)
    BY <1>5 DEF terminal_bin
  <2> QED BY <2>1, <2>2, LatticeDecides, Zenon
<1>6. CASE op = "nor"
  <2>1. \A p \in SUBSET Vars : v[p] <=> IF TRUE THEN (Value(f, p) \/ Value(g, p)) # TRUE
                                                ELSE (Value(f, p) /\ Value(g, p)) # TRUE
    BY <1>1, <1>6, BinaryMeaning, Zenon
  <2>2. terminal_bin(op, f, g) = TerminalLattice(TRUE, TRUE, f, g)
    BY <1>6 DEF terminal_bin
  <2> QED BY <2>1, <2>2, LatticeDecides, Zenon
<1>7. CASE op = "xor"
  <2>1. \A p \in SUBSET Vars : v[p] <=> IF FALSE THEN Value(f, p) = Value(g, p)
                                                ELSE Value(f, p) # Value(g, p)
    <3>1. \A p \in SUBSET Vars : v[p] = Meaning("xor", args, p)
      BY <1>1, <1>7, Zenon
    <3>2. \A p : Meaning("xor", args, p) = (Value(args[1], p) # Value(args[2], p))
      BY BinaryMeaning
    <3>3. \A p : Meaning("xor", args, p) = (Value(f, p) # Value(g, p))
      BY <3>2
    <3> QED BY <3>1, <3>3, Zenon
  <2>2. terminal_bin(op, f, g) = TerminalParity(FALSE, f, g)
    BY <1>7 DEF terminal_bin
  <2> QED BY <2>1, <2>2, ParityDecides, Zenon
<1>8. CASE op = "equiv"
  <2>1. \A p \in SUBSET Vars : v[p] <=> IF TRUE THEN Value(f, p) = Value(g, p)
                                                ELSE Value(f, p) # Value(g, p)
    <3>1. \A p \in SUBSET Vars : v[p] = Meaning("equiv", args, p)
      BY <1>1, <1>8, Zenon
    <3>2. \A p : Meaning("equiv", args, p) = (Value(args[1], p) = Value(args[2], p))
      BY BinaryMeaning
    <3>3. \A p : Meaning("equiv", args, p) = (Value(f, p) = Value(g, p))
      BY <3>2
    <3> QED BY <3>1, <3>3, Zenon
  <2>2. terminal_bin(op, f, g) = TerminalParity(TRUE, f, g)
    BY <1>8 DEF terminal_bin
  <2> QED BY <2>1, <2>2, ParityDecides, Zenon
<1>9. CASE op = "imp"
  <2>1. \A p \in SUBSET Vars : v[p] <=> IF TRUE THEN Value(f, p) => Value(g, p)
                                                ELSE ~Value(f, p) /\ Value(g, p)
    BY <1>1, <1>9, BinaryMeaning, Zenon
  <2>2. terminal_bin(op, f, g) = TerminalImplication(TRUE, f, g)
    BY <1>9 DEF terminal_bin
  <2> QED BY <2>1, <2>2, ImplicationDecides, Zenon
<1>10. CASE op = "imp_strict"
  <2>1. \A p \in SUBSET Vars : v[p] <=> IF FALSE THEN Value(f, p) => Value(g, p)
                                                ELSE ~Value(f, p) /\ Value(g, p)
    BY <1>1, <1>10, BinaryMeaning, Zenon
  <2>2. terminal_bin(op, f, g) = TerminalImplication(FALSE, f, g)
    BY <1>10 DEF terminal_bin
  <2> QED BY <2>1, <2>2, ImplicationDecides, Zenon
<1> QED BY <1>3, <1>4, <1>5, <1>6, <1>7, <1>8, <1>9, <1>10 DEF Binaries, Commutative

\* An edge that is an operand or a terminal is not above the operands.
LEMMA OperandOrTerminal ==
  ASSUME NEW D, IsDiagram(D), NEW k \in {1, 2, 3}, NEW args \in [1 .. k -> Edges(D)],
         NEW x, x \in Terminals \/ \E i \in 1 .. k : x = args[i]
  PROVE  x \in Edges(D) /\ Level(x) >= LevelOf(args) /\ LevelOf(<<x>>) >= LevelOf(args)
<1>0. NumVars \in Nat
  BY ParallelAssumption
<1>1. x \in Edges(D)
  BY DEF Edges
<1>2. x[1] \in 0 .. NumVars /\ (x \in Terminals => x[1] = NumVars)
  BY <1>1, EdgeFacts
<1>3. /\ LevelOf(args) \in 0 .. NumVars
      /\ \A i \in 1 .. k : LevelOf(args) <= args[i][1]
  BY LevelOfFacts, Zenon
<1>4. x[1] >= LevelOf(args)
  <2>1. PICK a : a = LevelOf(args)
    OBVIOUS
  <2>2. a \in 0 .. NumVars /\ \A i \in 1 .. k : a <= args[i][1]
    BY <1>3, <2>1
  <2> QED BY <1>0, <1>2, <2>1, <2>2
<1>5. LevelOf(<<x>>) = x[1]
  <2>1. PICK y : y = <<x>>
    OBVIOUS
  <2>2. y \in [1 .. 1 -> Edges(D)] /\ y[1] = x /\ 1 \in {1, 2, 3}
    BY <1>1, <2>1
  <2>3. \E i \in 1 .. 1 : LevelOf(y) = y[i][1]
    BY <2>2, LevelOfFacts, Zenon
  <2> QED BY <2>1, <2>2, <2>3
<1> QED BY <1>1, <1>4, <1>5 DEF Level

\* The terminal cases of ite are right.
LEMMA IteOutcome ==
  ASSUME NEW D, IsDiagram(D), NEW args \in [1 .. 3 -> Edges(D)]
  PROVE  Outcome(terminal_ite(args[1], args[2], args[3]), "ite", args, D)
<1>1. PICK f, g, h : f = args[1] /\ g = args[2] /\ h = args[3]
  OBVIOUS
<1>2. f \in Edges(D) /\ g \in Edges(D) /\ h \in Edges(D)
  BY <1>1
<1>3. Known(f) /\ Known(g) /\ Known(h)
  BY <1>2, EdgesKnown
<1> DEFINE c == terminal_ite(f, g, h)
           m(p) == Meaning("ite", args, p)
<1>4. ASSUME NEW p PROVE m(p) = IF Value(f, p) THEN Value(g, p) ELSE Value(h, p)
  <2>1. DOMAIN args = 1 .. 3
    OBVIOUS
  <2>2. m(p) = IF Value(args[1], p) THEN Value(args[2], p) ELSE Value(args[3], p)
    BY <2>1, OtherMeaning
  <2> HIDE DEF m
  <2> QED BY <1>1, <2>2
<1> SUFFICES Outcome(c, "ite", args, D)
  BY <1>1
<1>5. ASSUME NEW x \in {f, g, h}, c = Done(x), \A p \in SUBSET Vars : Value(x, p) <=> m(p)
      PROVE  Outcome(c, "ite", args, D)
  <2>1. \E i \in 1 .. 3 : x = args[i]
    BY <1>1
  <2>2. x \in Edges(D) /\ Level(x) >= LevelOf(args)
    BY <2>1, OperandOrTerminal
  <2>3. Right(x, "ite", args)
    BY <1>5, <2>2, Zenon DEF Right
  <2> QED BY <1>5, <2>2, <2>3, Zenon DEF Outcome
<1>6. ASSUME NEW x \in {f, g, h}, c = Not(x), \A p \in SUBSET Vars : ~Value(x, p) <=> m(p)
      PROVE  Outcome(c, "ite", args, D)
  <2>1. \E i \in 1 .. 3 : x = args[i]
    BY <1>1
  <2>2. x \in Edges(D) /\ LevelOf(<<x>>) >= LevelOf(args)
    BY <2>1, OperandOrTerminal
  <2>3. \A p \in SUBSET Vars : Meaning("not", <<x>>, p) <=> m(p)
    <3>1. DOMAIN <<x>> = 1 .. 1 /\ <<x>>[1] = x
      OBVIOUS
    <3>2. \A p : Meaning("not", <<x>>, p) = ~Value(x, p)
      BY <3>1, OtherMeaning
    <3> QED BY <1>6, <3>2, Zenon
  <2>4. Same("not", <<x>>, "ite", args)
    BY <2>2, <2>3, Zenon DEF Same
  <2> QED BY <1>6, <2>2, <2>4, Zenon DEF Outcome
<1>7. ASSUME NEW o \in Binaries, NEW x \in {f, g, h}, NEW y \in {f, g, h}, c = Apply(o, x, y),
             \A p \in SUBSET Vars : Meaning(o, <<x, y>>, p) <=> m(p)
      PROVE  Outcome(c, "ite", args, D)
  <2>1. x \in Edges(D) /\ y \in Edges(D)
    BY <1>2
  <2>2. PICK some : some = <<x, y>>
    OBVIOUS
  <2>3. /\ some \in [1 .. 2 -> Edges(D)] /\ 2 \in {1, 2, 3} /\ 3 \in {1, 2, 3}
        /\ \A i \in 1 .. 2 : \E j \in 1 .. 3 : some[i] = args[j]
    BY <1>1, <2>1, <2>2
  <2>4. LevelOf(some) >= LevelOf(args)
    BY <2>3, LevelOfSome
  <2>5. Same(o, <<x, y>>, "ite", args)
    BY <1>7, <2>2, <2>4, Zenon DEF Same
  <2> QED BY <1>7, <2>1, <2>5, Zenon DEF Outcome
<1>8. ASSUME NEW x, NEW y, NEW p
      PROVE  /\ Meaning("and", <<x, y>>, p) = (Value(x, p) /\ Value(y, p))
             /\ Meaning("or", <<x, y>>, p) = (Value(x, p) \/ Value(y, p))
             /\ Meaning("imp", <<x, y>>, p) = (Value(x, p) => Value(y, p))
             /\ Meaning("imp_strict", <<x, y>>, p) = (~Value(x, p) /\ Value(y, p))
  <2>1. DOMAIN <<x, y>> = 1 .. 2 /\ <<x, y>>[1] = x /\ <<x, y>>[2] = y
    OBVIOUS
  <2> QED BY <2>1, BinaryMeaning
<1>9. "and" \in Binaries /\ "or" \in Binaries /\ "imp" \in Binaries /\ "imp_strict" \in Binaries
  BY DEF Binaries, Commutative
<1>10. CASE g = h
  <2>1. c = Done(g)
    BY <1>10 DEF terminal_ite
  <2>2. \A p \in SUBSET Vars : Value(g, p) <=> m(p)
    BY <1>4, <1>10, Zenon
  <2> HIDE DEF c, m
  <2> QED BY <1>5, <2>1, <2>2
<1>11. CASE g # h /\ f = g
  <2>1. c = Apply("or", f, h)
    BY <1>11 DEF terminal_ite
  <2>2. \A p \in SUBSET Vars : Meaning("or", <<f, h>>, p) <=> m(p)
    <3> HIDE DEF m
    <3> QED BY <1>3, <1>4, <1>8, <1>11, Zenon DEF Known
  <2> HIDE DEF c, m
  <2> QED BY <1>7, <1>9, <2>1, <2>2
<1>12. CASE g # h /\ f # g /\ f = h
  <2>1. c = Apply("and", f, g)
    BY <1>12 DEF terminal_ite
  <2>2. \A p \in SUBSET Vars : Meaning("and", <<f, g>>, p) <=> m(p)
    <3> HIDE DEF m
    <3> QED BY <1>3, <1>4, <1>8, <1>12, Zenon DEF Known
  <2> HIDE DEF c, m
  <2> QED BY <1>7, <1>9, <2>1, <2>2
<1>13. CASE g # h /\ f # g /\ f # h /\ ~IsInner(f)
  <2>1. c = Done(IF f = True THEN g ELSE h)
    BY <1>13 DEF terminal_ite
  <2>2. CASE f = True
    <3>1. \A p \in SUBSET Vars : Value(g, p) <=> m(p)
      <4> HIDE DEF m
      <4> QED BY <1>3, <1>4, <2>2, Zenon DEF Known
    <3> HIDE DEF c, m
    <3> QED BY <1>5, <2>1, <2>2, <3>1
  <2>3. CASE f = False
    <3>1. \A p \in SUBSET Vars : Value(h, p) <=> m(p)
      <4> HIDE DEF m
      <4> QED BY <1>3, <1>4, <2>3, Zenon DEF Known
    <3>2. c = Done(h)
      BY <2>1, <2>3, TerminalsKnown
    <3> HIDE DEF c, m
    <3> QED BY <1>5, <3>1, <3>2
  <2> QED BY <1>3, <1>13, <2>2, <2>3 DEF Known
<1> DEFINE Rest == g # h /\ f # g /\ f # h /\ IsInner(f)
<1>14. CASE Rest /\ ~IsInner(g) /\ IsInner(h)
  <2>1. CASE g = True
    <3>1. c = Apply("or", f, h)
      BY <1>14, <2>1 DEF terminal_ite
    <3>2. \A p \in SUBSET Vars : Meaning("or", <<f, h>>, p) <=> m(p)
      <4> HIDE DEF m
      <4> QED BY <1>3, <1>4, <1>8, <2>1, Zenon DEF Known
    <3> HIDE DEF c, m
    <3> QED BY <1>7, <1>9, <3>1, <3>2
  <2>2. CASE g = False
    <3>1. c = Apply("imp_strict", f, h)
      BY <1>14, <2>2, TerminalsKnown DEF terminal_ite
    <3>2. \A p \in SUBSET Vars : Meaning("imp_strict", <<f, h>>, p) <=> m(p)
      <4> HIDE DEF m
      <4> QED BY <1>3, <1>4, <1>8, <2>2, Zenon DEF Known
    <3> HIDE DEF c, m
    <3> QED BY <1>7, <1>9, <3>1, <3>2
  <2> QED BY <1>3, <1>14, <2>1, <2>2 DEF Known
<1>15. CASE Rest /\ IsInner(g) /\ ~IsInner(h)
  <2>1. CASE h = True
    <3>1. c = Apply("imp", f, g)
      BY <1>15, <2>1 DEF terminal_ite
    <3>2. \A p \in SUBSET Vars : Meaning("imp", <<f, g>>, p) <=> m(p)
      <4> HIDE DEF m
      <4> QED BY <1>3, <1>4, <1>8, <2>1, Zenon DEF Known
    <3> HIDE DEF c, m
    <3> QED BY <1>7, <1>9, <3>1, <3>2
  <2>2. CASE h = False
    <3>1. c = Apply("and", f, g)
      BY <1>15, <2>2, TerminalsKnown DEF terminal_ite
    <3>2. \A p \in SUBSET Vars : Meaning("and", <<f, g>>, p) <=> m(p)
      <4> HIDE DEF m
      <4> QED BY <1>3, <1>4, <1>8, <2>2, Zenon DEF Known
    <3> HIDE DEF c, m
    <3> QED BY <1>7, <1>9, <3>1, <3>2
  <2> QED BY <1>3, <1>15, <2>1, <2>2 DEF Known
<1>16. CASE Rest /\ ~IsInner(g) /\ ~IsInner(h)
  <2>1. CASE g = True /\ h = False
    <3>1. c = Done(f)
      BY <1>16, <2>1 DEF terminal_ite
    <3>2. \A p \in SUBSET Vars : Value(f, p) <=> m(p)
      <4> HIDE DEF m
      <4> QED BY <1>3, <1>4, <2>1, Zenon DEF Known
    <3> HIDE DEF c, m
    <3> QED BY <1>5, <3>1, <3>2
  <2>2. CASE g = False /\ h = True
    <3>1. c = Not(f)
      BY <1>16, <2>2, TerminalsKnown DEF terminal_ite
    <3>2. \A p \in SUBSET Vars : ~Value(f, p) <=> m(p)
      <4> HIDE DEF m
      <4> QED BY <1>3, <1>4, <2>2, Zenon DEF Known
    <3> HIDE DEF c, m
    <3> QED BY <1>6, <3>1, <3>2
  <2> QED BY <1>3, <1>16, <2>1, <2>2 DEF Known
<1>17. CASE Rest /\ IsInner(g) /\ IsInner(h)
  <2>1. c = Ternary
    BY <1>17 DEF terminal_ite
  <2>2. LevelOf(args) <= f[1] /\ f[1] < NumVars /\ f[1] \in 0 .. NumVars /\ LevelOf(args) \in 0 .. NumVars
    <3>1. \A i \in 1 .. 3 : LevelOf(args) <= args[i][1]
      BY LevelOfFacts, Zenon
    <3>2. LevelOf(args) \in 0 .. NumVars
      BY LevelOfFacts, Zenon
    <3>3. LevelOf(args) <= args[1][1]
      BY <3>1
    <3> QED BY <1>1, <1>2, <1>17, <3>2, <3>3, EdgeFacts DEF IsInner
  <2>3. LevelOf(args) < NumVars
    <3>1. NumVars \in Nat
      BY ParallelAssumption
    <3>2. PICK l : l = LevelOf(args)
      OBVIOUS
    <3> QED BY <2>2, <3>1, <3>2
  <2> QED BY <2>1, <2>3 DEF Outcome
<1> QED BY <1>10, <1>11, <1>12, <1>13, <1>14, <1>15, <1>16, <1>17

\* Whatever the operator and its operands, the terminal case is right.
LEMMA TerminalCaseOutcome ==
  ASSUME NEW D, IsDiagram(D), NEW op \in Operators, NEW args \in Operands(op, Edges(D))
  PROVE  Outcome(terminal_case(op, args), op, args, D)
<1>0. NumVars \in Nat
  BY ParallelAssumption
<1>1. CASE op = "ite"
  <2>1. args \in [1 .. 3 -> Edges(D)]
    BY <1>1, OperandsFacts
  <2>2. terminal_case(op, args) = terminal_ite(args[1], args[2], args[3])
    BY <1>1 DEF terminal_case
  <2> QED BY <1>1, <2>1, <2>2, IteOutcome
<1>2. ASSUME NEW k \in {1, 2}, args \in [1 .. k -> Edges(D)], IsInner(args[1])
      PROVE  LevelOf(args) < NumVars
  <2>1. LevelOf(args) \in 0 .. NumVars /\ \A i \in 1 .. k : LevelOf(args) <= args[i][1]
    BY <1>2, LevelOfFacts, Zenon
  <2>2. PICK l : l = LevelOf(args)
    OBVIOUS
  <2>3. PICK e \in Edges(D) : e = args[1]
    BY <1>2
  <2>4. e[1] \in 0 .. NumVars
    BY EdgeFacts
  <2>5. l \in 0 .. NumVars /\ l <= e[1] /\ e[1] < NumVars
    BY <1>2, <2>1, <2>2, <2>3 DEF IsInner
  <2> QED BY <1>0, <2>2, <2>4, <2>5
<1>3. CASE op = "not"
  <2>1. args \in [1 .. 1 -> Edges(D)] /\ DOMAIN args = 1 .. 1
    BY <1>3, OperandsFacts
  <2>2. PICK f \in Edges(D) : f = args[1]
    BY <2>1
  <2>3. Known(f)
    BY EdgesKnown
  <2>4. terminal_case(op, args) = IF IsInner(f) THEN Binary ELSE Done(Terminal(~f[2]))
    BY <1>3, <2>2 DEF terminal_case
  <2>5. CASE IsInner(f)
    <3>1. LevelOf(args) < NumVars
      BY <1>2, <2>1, <2>2, <2>5
    <3> QED BY <2>4, <2>5, <3>1 DEF Outcome
  <2>6. ASSUME NEW x \in Terminals, terminal_case(op, args) = Done(x),
               \A p \in SUBSET Vars : Value(x, p) <=> ~Value(f, p)
        PROVE  Outcome(terminal_case(op, args), op, args, D)
    <3>1. x \in Edges(D) /\ Level(x) >= LevelOf(args)
      BY <2>1, OperandOrTerminal
    <3>2. \A p : Meaning("not", args, p) = ~Value(f, p)
      BY <2>1, <2>2, OtherMeaning
    <3>3. \A p \in SUBSET Vars : Value(x, p) <=> Meaning(op, args, p)
      BY <1>3, <2>6, <3>2, Zenon
    <3>4. Right(x, op, args)
      BY <3>1, <3>3, Zenon DEF Right
    <3> QED BY <2>6, <3>1, <3>4, Zenon DEF Outcome
  <2>7. CASE f = False
    <3>1. f[2] = FALSE
      BY <2>7 DEF False, Terminal
    <3>2. terminal_case(op, args) = Done(True)
      BY <2>4, <2>7, <3>1, TerminalsKnown
    <3>3. \A p \in SUBSET Vars : Value(True, p) <=> ~Value(f, p)
      BY <2>3, <2>7, TerminalsKnown, Zenon DEF Known
    <3> QED BY <2>6, <3>2, <3>3, Zenon DEF Terminals
  <2>8. CASE f = True
    <3>1. f[2] = TRUE
      BY <2>8 DEF True, Terminal
    <3>2. terminal_case(op, args) = Done(False)
      BY <2>4, <2>8, <3>1, TerminalsKnown
    <3>3. \A p \in SUBSET Vars : Value(False, p) <=> ~Value(f, p)
      BY <2>3, <2>8, TerminalsKnown, Zenon DEF Known
    <3> QED BY <2>6, <3>2, <3>3, Zenon DEF Terminals
  <2> QED BY <2>3, <2>5, <2>7, <2>8 DEF Known
<1>4. CASE op \in Binaries
  <2>1. args \in [1 .. 2 -> Edges(D)] /\ DOMAIN args = 1 .. 2 /\ op # "not" /\ op # "ite"
    BY <1>4, OperandsFacts
  <2>2. PICK f \in Edges(D), g \in Edges(D) : f = args[1] /\ g = args[2]
    BY <2>1
  <2>3. Known(f) /\ Known(g)
    BY EdgesKnown
  <2>4. PICK c : c = terminal_case(op, args)
    OBVIOUS
  <2>5. PICK v : v = [p \in SUBSET Vars |-> Meaning(op, args, p)]
    OBVIOUS
  <2>6. \A p \in SUBSET Vars : v[p] = Meaning(op, args, p)
    BY <2>5
  <2>7. Decides(c, {f, g}, f, v)
    <3>1. c = terminal_bin(op, f, g)
      BY <2>1, <2>2, <2>4 DEF terminal_case
    <3> QED BY <1>4, <2>1, <2>2, <2>3, <2>5, <3>1, BinaryDecides
  <2>8. CASE c = Binary /\ IsInner(f)
    <3>1. LevelOf(args) < NumVars
      BY <1>2, <2>1, <2>2, <2>8
    <3> QED BY <2>4, <2>8, <3>1 DEF Outcome
  <2>9. ASSUME NEW x \in {f, g} \cup Terminals, c = Done(x),
               \A p \in SUBSET Vars : Value(x, p) <=> v[p]
        PROVE  Outcome(c, op, args, D)
    <3>1. x \in Terminals \/ \E i \in 1 .. 2 : x = args[i]
      BY <2>2
    <3>2. x \in Edges(D) /\ Level(x) >= LevelOf(args)
      BY <2>1, <3>1, OperandOrTerminal
    <3>3. \A p \in SUBSET Vars : Value(x, p) <=> Meaning(op, args, p)
      BY <2>6, <2>9, Zenon
    <3>4. Right(x, op, args)
      BY <3>2, <3>3, Zenon DEF Right
    <3> QED BY <2>9, <3>2, <3>4, Zenon DEF Outcome
  <2>10. ASSUME NEW x \in {f, g}, c = Not(x), \A p \in SUBSET Vars : ~Value(x, p) <=> v[p]
         PROVE  Outcome(c, op, args, D)
    <3>1. x \in Terminals \/ \E i \in 1 .. 2 : x = args[i]
      BY <2>2
    <3>2. x \in Edges(D) /\ LevelOf(<<x>>) >= LevelOf(args)
      BY <2>1, <3>1, OperandOrTerminal
    <3>3. DOMAIN <<x>> = 1 .. 1 /\ <<x>>[1] = x
      OBVIOUS
    <3>4. \A p : Meaning("not", <<x>>, p) = ~Value(x, p)
      BY <3>3, OtherMeaning
    <3>5. \A p \in SUBSET Vars : Meaning("not", <<x>>, p) <=> Meaning(op, args, p)
      BY <2>6, <2>10, <3>4, Zenon
    <3>6. Same("not", <<x>>, op, args)
      BY <3>2, <3>5, Zenon DEF Same
    <3> QED BY <2>10, <3>2, <3>6, Zenon DEF Outcome
  <2>11. Outcome(c, op, args, D)
    BY <2>4, <2>7, <2>8, <2>9, <2>10, Zenon DEF Decides
  <2> QED BY <2>4, <2>11
<1> QED BY <1>1, <1>3, <1>4, OperandsFacts

-----------------------------------------------------------------------------
(* Recursion.                                                              *)

\* The recursive call i decides the value at the point p.
Selects(i, l, p) == i \in {1, 2} /\ (i = 1 <=> l \in p)

\* Operands with a level above the terminals.
Recursive(D, k, args) ==
  IsDiagram(D) /\ k \in {1, 2, 3} /\ args \in [1 .. k -> Edges(D)] /\ LevelOf(args) < NumVars

\* A cofactor is an edge below the level of the call; at a point one of the two has
\* the value of the operand.
LEMMA CofactorAt ==
  ASSUME NEW D, NEW k, NEW args, Recursive(D, k, args), NEW i \in {1, 2}, NEW j \in 1 .. k, NEW p
  PROVE  /\ Cofactors(args, i)[j] \in Edges(D)
         /\ Cofactors(args, i)[j][1] > LevelOf(args)
         /\ Selects(i, LevelOf(args), p) => Value(args[j], p) = Value(Cofactors(args, i)[j], p)
<1>0. NumVars \in Nat
  BY ParallelAssumption
<1> IsDiagram(D) /\ k \in {1, 2, 3} /\ args \in [1 .. k -> Edges(D)] /\ LevelOf(args) < NumVars
  BY DEF Recursive
<1>1. LevelOf(args) \in 0 .. NumVars /\ \A m \in 1 .. k : LevelOf(args) <= args[m][1]
  BY LevelOfFacts, Zenon
<1>2. PICK l, co : l = LevelOf(args) /\ co = Cofactors(args, i)
  OBVIOUS
<1>3. co[j] = IF args[j][1] = l THEN <<args[j][2], args[j][3]>>[i] ELSE args[j]
  BY <1>2 DEF Cofactors, Children, Level
<1>4. PICK f \in Edges(D) : f = args[j]
  OBVIOUS
<1>5. f[1] \in 0 .. NumVars /\ l <= f[1] /\ l \in 0 .. NumVars
  BY <1>1, <1>2, <1>4, EdgeFacts
<1>6. CASE f[1] # l
  <2>1. co[j] = f
    BY <1>3, <1>4, <1>6
  <2> QED BY <1>0, <1>2, <1>4, <1>5, <1>6, <2>1
<1>7. CASE f[1] = l
  <2>1. IsInner(f)
    BY <1>2, <1>7 DEF IsInner
  <2>2. f \in D
    BY <2>1, EdgeFacts
  <2>3. f[2] \in Edges(D) /\ f[3] \in Edges(D) /\ f[2][1] > l /\ f[3][1] > l
    BY <1>7, <2>2, EdgeFacts
  <2>4. co[j] = <<f[2], f[3]>>[i]
    BY <1>3, <1>4, <1>7
  <2>5. co[j] = IF i = 1 THEN f[2] ELSE f[3]
    BY <2>4
  <2>6. ASSUME Selects(i, l, p) PROVE Value(args[j], p) = Value(co[j], p)
    <3>1. co[j] = IF f[1] \in p THEN f[2] ELSE f[3]
      BY <1>7, <2>5, <2>6 DEF Selects
    <3> QED BY <1>4, <2>2, <3>1, ValueOfNode
  <2>7. co[j] \in Edges(D) /\ co[j][1] > l
    BY <2>3, <2>5
  <2> QED BY <1>2, <2>6, <2>7
<1> QED BY <1>6, <1>7

\* The cofactors are operands below the level of the call.
LEMMA CofactorsFacts ==
  ASSUME NEW D, NEW k, NEW args, Recursive(D, k, args), NEW i \in {1, 2}
  PROVE  /\ Cofactors(args, i) \in [1 .. k -> Edges(D)]
         /\ LevelOf(Cofactors(args, i)) > LevelOf(args)
<1> IsDiagram(D) /\ k \in {1, 2, 3} /\ args \in [1 .. k -> Edges(D)]
  BY DEF Recursive
<1>1. PICK l, co : l = LevelOf(args) /\ co = Cofactors(args, i)
  OBVIOUS
<1>2. ASSUME NEW j \in 1 .. k PROVE co[j] \in Edges(D) /\ co[j][1] > l
  BY <1>1, CofactorAt
<1>3. co = [j \in 1 .. k |-> co[j]]
  BY <1>1 DEF Cofactors
<1>4. co \in [1 .. k -> Edges(D)]
  BY <1>2, <1>3
<1>5. \E j \in 1 .. k : LevelOf(co) = co[j][1]
  BY <1>4, LevelOfFacts, Zenon
<1>6. PICK j \in 1 .. k : LevelOf(co) = co[j][1]
  BY <1>5
<1>7. LevelOf(co) > l
  BY <1>2, <1>6
<1> QED BY <1>1, <1>4, <1>7

\* At a point, the call means the same as one of the two recursive calls.
LEMMA CofactorsMeaning ==
  ASSUME NEW D, NEW k, NEW args, Recursive(D, k, args),
         NEW op, NEW p, NEW i \in {1, 2}, Selects(i, LevelOf(args), p)
  PROVE  Meaning(op, args, p) = Meaning(op, Cofactors(args, i), p)
<1>1. args \in [1 .. k -> Edges(D)]
  BY DEF Recursive
<1>2. PICK co : co = Cofactors(args, i)
  OBVIOUS
<1>3. co \in [1 .. k -> Edges(D)] /\ \A j \in 1 .. k : Value(args[j], p) = Value(co[j], p)
  <2>1. Cofactors(args, i) \in [1 .. k -> Edges(D)]
    BY CofactorsFacts, Zenon
  <2>2. ASSUME NEW j \in 1 .. k PROVE Value(args[j], p) = Value(Cofactors(args, i)[j], p)
    BY CofactorAt
  <2> QED BY <1>2, <2>1, <2>2
<1>4. [j \in DOMAIN args |-> Value(args[j], p)] = [j \in DOMAIN co |-> Value(co[j], p)]
  <2>1. DOMAIN args = 1 .. k /\ DOMAIN co = 1 .. k
    BY <1>1, <1>3
  <2> QED BY <1>3, <2>1
<1> QED BY <1>2, <1>4 DEF Meaning

\* The results of the two recursive calls, joined by a node at the level of the call
\* or the same edge, are the result of the call.
LEMMA JoinedRight ==
  ASSUME NEW D, NEW k, NEW args, Recursive(D, k, args), NEW op,
         NEW B, IsDiagram(B), NEW t \in Edges(B), NEW e \in Edges(B),
         Right(t, op, Cofactors(args, 1)), Right(e, op, Cofactors(args, 2))
  PROVE  /\ LevelOf(args) \in Vars /\ Level(t) > LevelOf(args) /\ Level(e) > LevelOf(args)
         /\ t = e => Right(t, op, args)
         /\ <<LevelOf(args), t, e>> \in B => Right(<<LevelOf(args), t, e>>, op, args)
<1>0. NumVars \in Nat
  BY ParallelAssumption
<1> IsDiagram(D) /\ k \in {1, 2, 3} /\ args \in [1 .. k -> Edges(D)] /\ LevelOf(args) < NumVars
  BY DEF Recursive
<1>1. PICK l : l = LevelOf(args)
  OBVIOUS
<1>2. LevelOf(args) \in 0 .. NumVars
  BY LevelOfFacts, Zenon
<1>3. l \in Vars
  BY <1>0, <1>1, <1>2 DEF Vars
<1>4. LevelOf(Cofactors(args, 1)) > l /\ LevelOf(Cofactors(args, 2)) > l
  BY <1>1, CofactorsFacts
<1>5. Level(t) > l /\ Level(e) > l
  <2>1. Level(t) \in Int /\ Level(e) \in Int
    BY <1>0, EdgeFacts DEF Level
  <2>2. LevelOf(Cofactors(args, 1)) \in Int /\ LevelOf(Cofactors(args, 2)) \in Int
    <3>1. Cofactors(args, 1) \in [1 .. k -> Edges(D)] /\ Cofactors(args, 2) \in [1 .. k -> Edges(D)]
      BY CofactorsFacts
    <3>2. LevelOf(Cofactors(args, 1)) \in 0 .. NumVars
      BY <3>1, LevelOfFacts, Zenon
    <3>3. LevelOf(Cofactors(args, 2)) \in 0 .. NumVars
      BY <3>1, LevelOfFacts, Zenon
    <3> QED BY <1>0, <3>2, <3>3
  <2>3. Level(t) >= LevelOf(Cofactors(args, 1)) /\ Level(e) >= LevelOf(Cofactors(args, 2))
    BY DEF Right
  <2>4. PICK a, b, c, d : /\ a = Level(t) /\ b = Level(e)
                          /\ c = LevelOf(Cofactors(args, 1)) /\ d = LevelOf(Cofactors(args, 2))
    OBVIOUS
  <2>5. a \in Int /\ b \in Int /\ c \in Int /\ d \in Int /\ a >= c /\ b >= d /\ c > l /\ d > l
    BY <1>4, <2>1, <2>2, <2>3, <2>4
  <2>6. l \in Int
    BY <1>0, <1>3 DEF Vars
  <2>7. a > l /\ b > l
    BY <2>5, <2>6
  <2> QED BY <2>4, <2>7
<1>6. ASSUME NEW p \in SUBSET Vars
      PROVE  Meaning(op, args, p) <=> Value(IF l \in p THEN t ELSE e, p)
  <2>1. CASE l \in p
    <3>1. Meaning(op, args, p) = Meaning(op, Cofactors(args, 1), p)
      <4>1. Selects(1, LevelOf(args), p)
        BY <1>1, <2>1 DEF Selects
      <4> QED BY <4>1, CofactorsMeaning
    <3>2. Value(t, p) <=> Meaning(op, Cofactors(args, 1), p)
      BY Zenon DEF Right
    <3> QED BY <2>1, <3>1, <3>2, Zenon
  <2>2. CASE l \notin p
    <3>1. Meaning(op, args, p) = Meaning(op, Cofactors(args, 2), p)
      <4>1. Selects(2, LevelOf(args), p)
        BY <1>1, <2>2 DEF Selects
      <4> QED BY <4>1, CofactorsMeaning
    <3>2. Value(e, p) <=> Meaning(op, Cofactors(args, 2), p)
      BY Zenon DEF Right
    <3> QED BY <2>2, <3>1, <3>2, Zenon
  <2> QED BY <2>1, <2>2
<1>7. ASSUME t = e PROVE Right(t, op, args)
  <2>1. \A p \in SUBSET Vars : Value(t, p) <=> Meaning(op, args, p)
    BY <1>6, <1>7, Zenon
  <2>2. Level(t) >= LevelOf(args)
    <3>1. PICK a : a = Level(t)
      OBVIOUS
    <3>2. a \in Int /\ a > l /\ l \in Int
      BY <1>0, <1>3, <1>5, <3>1, EdgeFacts DEF Level, Vars
    <3> QED BY <1>1, <3>1, <3>2
  <2> QED BY <2>1, <2>2, Zenon DEF Right
<1>8. ASSUME NEW n \in B, n = <<l, t, e>> PROVE Right(n, op, args)
  <2>1. n[1] = l /\ n[2] = t /\ n[3] = e
    BY <1>8
  <2>2. ASSUME NEW p PROVE Value(n, p) = Value(IF l \in p THEN t ELSE e, p)
    BY <2>1, ValueOfNode
  <2>3. \A p \in SUBSET Vars : Value(n, p) <=> Meaning(op, args, p)
    BY <1>6, <2>2, Zenon
  <2>4. Level(n) >= LevelOf(args)
    BY <1>0, <1>1, <1>3, <2>1 DEF Level, Vars
  <2> QED BY <2>3, <2>4, Zenon DEF Right
<1> QED BY <1>1, <1>3, <1>5, <1>7, <1>8

\* Results are passed on to calls with the same result.
LEMMA SameRight ==
  ASSUME NEW D, IsDiagram(D), NEW e \in Edges(D), NEW C, IsDiagram(C),
         NEW k \in {1, 2, 3}, NEW args \in [1 .. k -> Edges(C)],
         NEW j \in {1, 2, 3}, NEW args2 \in [1 .. j -> Edges(C)],
         NEW op, NEW op2, Right(e, op, args), Same(op, args, op2, args2)
  PROVE  Right(e, op2, args2)
<1>0. NumVars \in Nat
  BY ParallelAssumption
<1>1. LevelOf(args) \in 0 .. NumVars
  BY LevelOfFacts, Zenon
<1>2. LevelOf(args2) \in 0 .. NumVars
  BY LevelOfFacts, Zenon
<1>3. PICK a, b, c : a = Level(e) /\ b = LevelOf(args) /\ c = LevelOf(args2)
  OBVIOUS
<1>4. a \in Int
  BY <1>0, <1>3, EdgeFacts DEF Level
<1>5. a >= c
  BY <1>0, <1>1, <1>2, <1>3, <1>4 DEF Right, Same
<1>6. \A p \in SUBSET Vars : Value(e, p) <=> Meaning(op2, args2, p)
  BY Zenon DEF Right, Same
<1> QED BY <1>3, <1>5, <1>6, Zenon DEF Right

\* A call has its own result.
LEMMA SameReflexive ==
  ASSUME NEW D, IsDiagram(D), NEW k \in {1, 2, 3}, NEW args \in [1 .. k -> Edges(D)], NEW op
  PROVE  Same(op, args, op, args)
<1>1. NumVars \in Nat
  BY ParallelAssumption
<1>2. LevelOf(args) \in 0 .. NumVars
  BY LevelOfFacts, Zenon
<1>3. LevelOf(args) >= LevelOf(args)
  BY <1>1, <1>2
<1> QED BY <1>3, Zenon DEF Same

\* Calls with one cache key have the same result.
LEMMA KeySame ==
  ASSUME NEW D, IsDiagram(D), NEW op \in Operators, NEW args \in Operands(op, Edges(D)),
         NEW op2 \in Operators, NEW args2 \in Operands(op2, Edges(D)), Key(op, args) = Key(op2, args2)
  PROVE  op = op2 /\ Same(op, args, op2, args2)
<1>0. NumVars \in Nat
  BY ParallelAssumption
<1>1. op = op2
  BY DEF Key
<1>2. PICK k \in {1, 2, 3} : Operands(op, Edges(D)) = [1 .. k -> Edges(D)] /\ args \in [1 .. k -> Edges(D)]
  BY OperandsSequence
<1>3. args2 \in [1 .. k -> Edges(D)]
  BY <1>1, <1>2
<1>4. CASE args = args2
  BY <1>1, <1>2, <1>4, SameReflexive
<1>5. CASE args # args2
  <2>1. op \in Commutative
    BY <1>1, <1>5 DEF Key
  <2>2. op \in Binaries /\ args \in [1 .. 2 -> Edges(D)] /\ args2 \in [1 .. 2 -> Edges(D)]
    BY <1>1, <2>1, OperandsFacts DEF Binaries
  <2>3. {args[1], args[2]} = {args2[1], args2[2]}
    BY <1>1, <2>1 DEF Key
  <2>4. args[1] = args2[2] /\ args[2] = args2[1]
    <3>1. ~(args[1] = args2[1] /\ args[2] = args2[2])
      BY <1>5, <2>2
    <3> QED BY <2>3, <3>1, Zenon
  <2>5. LevelOf(args) >= LevelOf(args2)
    <3>1. 2 \in {1, 2, 3} /\ \A i \in 1 .. 2 : \E m \in 1 .. 2 : args[i] = args2[m]
      BY <2>4
    <3> QED BY <2>2, <3>1, LevelOfSome
  <2>6. ASSUME NEW p \in SUBSET Vars PROVE Meaning(op, args, p) <=> Meaning(op, args2, p)
    <3>1. DOMAIN args = 1 .. 2 /\ DOMAIN args2 = 1 .. 2
      BY <2>2
    <3>2. PICK a, b : a = Value(args[1], p) /\ b = Value(args[2], p)
      OBVIOUS
    <3>3. a \in BOOLEAN /\ b \in BOOLEAN
      <4>1. args[1] \in Edges(D) /\ args[2] \in Edges(D)
        BY <2>2
      <4> QED BY <3>2, <4>1, ValueType
    <3>4. a = Value(args2[2], p) /\ b = Value(args2[1], p)
      BY <2>4, <3>2
    <3>5. CASE op = "and"
      <4>1. Meaning("and", args, p) = (Value(args[1], p) /\ Value(args[2], p))
        BY <3>1, BinaryMeaning
      <4>2. Meaning("and", args2, p) = (Value(args2[1], p) /\ Value(args2[2], p))
        BY <3>1, BinaryMeaning
      <4>3. Meaning("and", args, p) = (a /\ b) /\ Meaning("and", args2, p) = (b /\ a)
        BY <3>2, <3>4, <4>1, <4>2
      <4> QED BY <3>3, <3>5, <4>3, Zenon
    <3>6. CASE op = "or"
      <4>1. Meaning("or", args, p) = (Value(args[1], p) \/ Value(args[2], p))
        BY <3>1, BinaryMeaning
      <4>2. Meaning("or", args2, p) = (Value(args2[1], p) \/ Value(args2[2], p))
        BY <3>1, BinaryMeaning
      <4>3. Meaning("or", args, p) = (a \/ b) /\ Meaning("or", args2, p) = (b \/ a)
        BY <3>2, <3>4, <4>1, <4>2
      <4> QED BY <3>3, <3>6, <4>3, Zenon
    <3>7. CASE op = "nand"
      <4>1. Meaning("nand", args, p) = (~(Value(args[1], p) /\ Value(args[2], p)))
        BY <3>1, BinaryMeaning
      <4>2. Meaning("nand", args2, p) = (~(Value(args2[1], p) /\ Value(args2[2], p)))
        BY <3>1, BinaryMeaning
      <4>3. Meaning("nand", args, p) = (~(a /\ b)) /\ Meaning("nand", args2, p) = (~(b /\ a))
        BY <3>2, <3>4, <4>1, <4>2
      <4> QED BY <3>3, <3>7, <4>3, Zenon
    <3>8. CASE op = "nor"
      <4>1. Meaning("nor", args, p) = (~(Value(args[1], p) \/ Value(args[2], p)))
        BY <3>1, BinaryMeaning
      <4>2. Meaning("nor", args2, p) = (~(Value(args2[1], p) \/ Value(args2[2], p)))
        BY <3>1, BinaryMeaning
      <4>3. Meaning("nor", args, p) = (~(a \/ b)) /\ Meaning("nor", args2, p) = (~(b \/ a))
        BY <3>2, <3>4, <4>1, <4>2
      <4> QED BY <3>3, <3>8, <4>3, Zenon
    <3>9. CASE op = "xor"
      <4>1. Meaning("xor", args, p) = (Value(args[1], p) # Value(args[2], p))
        BY <3>1, BinaryMeaning
      <4>2. Meaning("xor", args2, p) = (Value(args2[1], p) # Value(args2[2], p))
        BY <3>1, BinaryMeaning
      <4>3. Meaning("xor", args, p) = (a # b) /\ Meaning("xor", args2, p) = (b # a)
        BY <3>2, <3>4, <4>1, <4>2
      <4> QED BY <3>3, <3>9, <4>3, Zenon
    <3>10. CASE op = "equiv"
      <4>1. Meaning("equiv", args, p) = (Value(args[1], p) = Value(args[2], p))
        BY <3>1, BinaryMeaning
      <4>2. Meaning("equiv", args2, p) = (Value(args2[1], p) = Value(args2[2], p))
        BY <3>1, BinaryMeaning
      <4>3. Meaning("equiv", args, p) = (a = b) /\ Meaning("equiv", args2, p) = (b = a)
        BY <3>2, <3>4, <4>1, <4>2
      <4> QED BY <3>3, <3>10, <4>3, Zenon
    <3> QED BY <2>1, <3>5, <3>6, <3>7, <3>8, <3>9, <3>10 DEF Commutative
  <2> QED BY <1>1, <2>5, <2>6, Zenon DEF Same
<1> QED BY <1>4, <1>5

-----------------------------------------------------------------------------
(* Counting.                                                               *)

\* The held edges in G to n.
Refs(G, n) == {x \in G : x[3] = n}

\* The counts of R are exact for the held edges G.
Exact(R, G) ==
  /\ IsFiniteSet(G) /\ IsFiniteSet(DOMAIN R) /\ R = [n \in DOMAIN R |-> R[n]]
  /\ \A n \in DOMAIN R :
       R[n] = Cardinality(ParentEdges(DOMAIN R, n)) + Cardinality({n} \cap Owned)
                + Cardinality(Refs(G, n))

\* The sets that are counted are finite.
LEMMA FiniteCounts ==
  ASSUME NEW D, IsFiniteSet(D), NEW G, IsFiniteSet(G), NEW n
  PROVE  /\ IsFiniteSet(ParentEdges(D, n)) /\ Cardinality(ParentEdges(D, n)) \in Nat
         /\ Cardinality({n} \cap Owned) \in Nat
         /\ (n \in Owned => Cardinality({n} \cap Owned) = 1)
         /\ (n \notin Owned => Cardinality({n} \cap Owned) = 0)
         /\ IsFiniteSet(Refs(G, n)) /\ Cardinality(Refs(G, n)) \in Nat
<1>1. IsFiniteSet(ParentEdges(D, n)) /\ Cardinality(ParentEdges(D, n)) \in Nat
  <2>1. IsFiniteSet({1, 2})
    <3>1. IsFiniteSet({1} \cup {2})
      BY FS_Singleton, FS_AddElement
    <3>2. {1} \cup {2} = {1, 2}
      OBVIOUS
    <3> QED BY <3>1, <3>2
  <2>2. IsFiniteSet(D \X {1, 2})
    BY <2>1, FS_Product
  <2>3. ParentEdges(D, n) \subseteq D \X {1, 2}
    BY DEF ParentEdges
  <2>4. IsFiniteSet(ParentEdges(D, n))
    BY <2>2, <2>3, FS_Subset
  <2> QED BY <2>4, FS_CardinalityType
<1>2. n \in Owned => Cardinality({n} \cap Owned) = 1
  <2> SUFFICES ASSUME n \in Owned PROVE Cardinality({n} \cap Owned) = 1
    OBVIOUS
  <2>1. {n} \cap Owned = {n}
    OBVIOUS
  <2> QED BY <2>1, FS_Singleton
<1>3. n \notin Owned => Cardinality({n} \cap Owned) = 0
  <2> SUFFICES ASSUME n \notin Owned PROVE Cardinality({n} \cap Owned) = 0
    OBVIOUS
  <2>1. {n} \cap Owned = {}
    OBVIOUS
  <2> QED BY <2>1, FS_EmptySet
<1>4. IsFiniteSet(Refs(G, n)) /\ Cardinality(Refs(G, n)) \in Nat
  <2>1. Refs(G, n) \subseteq G
    BY DEF Refs
  <2>2. IsFiniteSet(Refs(G, n))
    BY <2>1, FS_Subset
  <2> QED BY <2>2, FS_CardinalityType
<1> QED BY <1>1, <1>2, <1>3, <1>4

\* One more held edge.
LEMMA RefsAdd ==
  ASSUME NEW G, IsFiniteSet(G), NEW g, g \notin G, NEW n
  PROVE  Cardinality(Refs(G \cup {g}, n)) = Cardinality(Refs(G, n)) + IF g[3] = n THEN 1 ELSE 0
<1>1. IsFiniteSet(Refs(G, n)) /\ Cardinality(Refs(G, n)) \in Nat
  BY FiniteCounts, FS_EmptySet
<1>2. CASE g[3] = n
  <2>1. Refs(G \cup {g}, n) = Refs(G, n) \cup {g} /\ g \notin Refs(G, n)
    BY <1>2 DEF Refs
  <2>2. Cardinality(Refs(G, n) \cup {g}) = Cardinality(Refs(G, n)) + 1
    BY <1>1, <2>1, FS_AddElement
  <2> QED BY <1>2, <2>1, <2>2
<1>3. CASE g[3] # n
  <2>1. Refs(G \cup {g}, n) = Refs(G, n)
    BY <1>3 DEF Refs
  <2> QED BY <1>1, <1>3, <2>1
<1> QED BY <1>2, <1>3

\* One held edge less.
LEMMA RefsRemove ==
  ASSUME NEW G, IsFiniteSet(G), NEW g \in G, NEW n
  PROVE  Cardinality(Refs(G \ {g}, n)) = Cardinality(Refs(G, n)) - IF g[3] = n THEN 1 ELSE 0
<1>1. IsFiniteSet(G \ {g}) /\ g \notin G \ {g} /\ (G \ {g}) \cup {g} = G
  BY FS_RemoveElement
<1>2. PICK H : H = G \ {g}
  OBVIOUS
<1>3. Cardinality(Refs(H \cup {g}, n)) = Cardinality(Refs(H, n)) + IF g[3] = n THEN 1 ELSE 0
  BY <1>1, <1>2, RefsAdd
<1>4. Cardinality(Refs(H, n)) \in Nat
  BY <1>1, <1>2, FiniteCounts, FS_EmptySet
<1>5. PICK a, b : a = Cardinality(Refs(G, n)) /\ b = Cardinality(Refs(H, n))
  OBVIOUS
<1>6. a = b + (IF g[3] = n THEN 1 ELSE 0) /\ b \in Nat
  BY <1>1, <1>2, <1>3, <1>4, <1>5
<1>7. b = a - IF g[3] = n THEN 1 ELSE 0
  BY <1>6
<1> QED BY <1>2, <1>5, <1>7

\* An edge is cloned.
LEMMA ExactRetain ==
  ASSUME NEW R, NEW G, Exact(R, G), NEW g, g \notin G
  PROVE  Exact(retain(R, g[3]), G \cup {g}) /\ DOMAIN retain(R, g[3]) = DOMAIN R
<1> IsFiniteSet(G) /\ IsFiniteSet(DOMAIN R) /\ R = [n \in DOMAIN R |-> R[n]]
  BY DEF Exact
<1>1. PICK Q : Q = retain(R, g[3])
  OBVIOUS
<1>2. /\ DOMAIN Q = DOMAIN R /\ Q = [n \in DOMAIN Q |-> Q[n]]
      /\ \A n \in DOMAIN R : Q[n] = IF n = g[3] THEN R[n] + 1 ELSE R[n]
  BY <1>1 DEF retain
<1>3. IsFiniteSet(G \cup {g})
  BY FS_AddElement
<1>4. ASSUME NEW n \in DOMAIN R
      PROVE  Q[n] = Cardinality(ParentEdges(DOMAIN R, n)) + Cardinality({n} \cap Owned)
                      + Cardinality(Refs(G \cup {g}, n))
  <2>1. PICK a, b, c, d : /\ a = Cardinality(ParentEdges(DOMAIN R, n)) /\ b = Cardinality({n} \cap Owned)
                          /\ c = Cardinality(Refs(G, n)) /\ d = Cardinality(Refs(G \cup {g}, n))
    OBVIOUS
  <2>2. a \in Nat /\ b \in Nat /\ c \in Nat
    BY <2>1, FiniteCounts
  <2>3. R[n] = a + b + c
    BY <2>1 DEF Exact
  <2>4. d = c + IF g[3] = n THEN 1 ELSE 0
    BY <2>1, RefsAdd
  <2>5. Q[n] = a + b + d
    BY <1>2, <2>2, <2>3, <2>4
  <2> QED BY <2>1, <2>5
<1>5. Exact(Q, G \cup {g})
  BY <1>2, <1>3, <1>4 DEF Exact
<1> QED BY <1>1, <1>2, <1>5

\* A held edge is dropped.
LEMMA ExactRelease ==
  ASSUME NEW R, NEW G, Exact(R, G), NEW g \in G
  PROVE  Exact(release(R, g[3]), G \ {g}) /\ DOMAIN release(R, g[3]) = DOMAIN R
<1> IsFiniteSet(G) /\ IsFiniteSet(DOMAIN R) /\ R = [n \in DOMAIN R |-> R[n]]
  BY DEF Exact
<1>1. PICK Q : Q = release(R, g[3])
  OBVIOUS
<1>2. /\ DOMAIN Q = DOMAIN R /\ Q = [n \in DOMAIN Q |-> Q[n]]
      /\ \A n \in DOMAIN R : Q[n] = IF n = g[3] THEN R[n] - 1 ELSE R[n]
  BY <1>1 DEF release
<1>3. IsFiniteSet(G \ {g})
  BY FS_RemoveElement
<1>4. ASSUME NEW n \in DOMAIN R
      PROVE  Q[n] = Cardinality(ParentEdges(DOMAIN R, n)) + Cardinality({n} \cap Owned)
                      + Cardinality(Refs(G \ {g}, n))
  <2>1. PICK a, b, c, d : /\ a = Cardinality(ParentEdges(DOMAIN R, n)) /\ b = Cardinality({n} \cap Owned)
                          /\ c = Cardinality(Refs(G, n)) /\ d = Cardinality(Refs(G \ {g}, n))
    OBVIOUS
  <2>2. a \in Nat /\ b \in Nat /\ c \in Nat
    BY <2>1, FiniteCounts
  <2>3. R[n] = a + b + c
    BY <2>1 DEF Exact
  <2>4. d = c - IF g[3] = n THEN 1 ELSE 0
    BY <2>1, RefsRemove
  <2>5. Q[n] = a + b + d
    BY <1>2, <2>2, <2>3, <2>4
  <2> QED BY <2>1, <2>5
<1>5. Exact(Q, G \ {g})
  BY <1>2, <1>3, <1>4 DEF Exact
<1> QED BY <1>1, <1>2, <1>5

\* A held edge goes to another holder.
LEMMA ExactMove ==
  ASSUME NEW R, NEW G, Exact(R, G), NEW g \in G, NEW h, h \notin G \ {g}, h[3] = g[3]
  PROVE  Exact(R, (G \ {g}) \cup {h})
<1> IsFiniteSet(G) /\ IsFiniteSet(DOMAIN R) /\ R = [n \in DOMAIN R |-> R[n]]
  BY DEF Exact
<1>1. PICK H : H = G \ {g}
  OBVIOUS
<1>2. IsFiniteSet(H) /\ IsFiniteSet(H \cup {h})
  BY <1>1, FS_RemoveElement, FS_AddElement
<1>3. ASSUME NEW n \in DOMAIN R
      PROVE  Cardinality(Refs(H \cup {h}, n)) = Cardinality(Refs(G, n))
  <2>1. Cardinality(Refs(H, n)) = Cardinality(Refs(G, n)) - IF g[3] = n THEN 1 ELSE 0
    BY <1>1, RefsRemove
  <2>2. Cardinality(Refs(H \cup {h}, n)) = Cardinality(Refs(H, n)) + IF h[3] = n THEN 1 ELSE 0
    BY <1>1, <1>2, RefsAdd
  <2>3. Cardinality(Refs(G, n)) \in Nat
    BY FiniteCounts
  <2>4. PICK a, b, c : /\ a = Cardinality(Refs(G, n)) /\ b = Cardinality(Refs(H, n))
                       /\ c = Cardinality(Refs(H \cup {h}, n))
    OBVIOUS
  <2>5. a \in Nat /\ b = a - (IF g[3] = n THEN 1 ELSE 0) /\ c = b + IF g[3] = n THEN 1 ELSE 0
    BY <2>1, <2>2, <2>3, <2>4
  <2>6. c = a
    BY <2>5
  <2> QED BY <2>4, <2>6
<1>4. Exact(R, H \cup {h})
  BY <1>2, <1>3 DEF Exact
<1> QED BY <1>1, <1>4

\* The child edges of one node.
LEMMA OwnChildren ==
  ASSUME NEW n, n[2] # n[3], NEW m
  PROVE  /\ m = n[2] => ParentEdges({n}, m) = {<<n, 1>>}
         /\ m = n[3] => ParentEdges({n}, m) = {<<n, 2>>}
         /\ m # n[2] /\ m # n[3] => ParentEdges({n}, m) = {}
<1>1. ParentEdges({n}, m) = {x \in {n} \X {1, 2} : <<n[2], n[3]>>[x[2]] = m}
  <2>1. \A x \in {n} \X {1, 2} : Children(x[1]) = <<n[2], n[3]>>
    BY DEF Children
  <2> QED BY <2>1 DEF ParentEdges
<1>2. {n} \X {1, 2} = {<<n, 1>>, <<n, 2>>}
  OBVIOUS
<1>3. <<n[2], n[3]>>[<<n, 1>>[2]] = n[2] /\ <<n[2], n[3]>>[<<n, 2>>[2]] = n[3]
  OBVIOUS
<1> QED BY <1>1, <1>2, <1>3

\* There is no edge to n.
Fresh(R, G, n) ==
  /\ n \notin DOMAIN R /\ n \notin Owned /\ \A g \in G : g[3] # n
  /\ \A m \in DOMAIN R \cup {n} : m[2] # n /\ m[3] # n

\* A new node takes over the two edges to its children, and its maker holds it.
LEMMA ExactNode ==
  ASSUME NEW R, NEW G, Exact(R, G), NEW n, Fresh(R, G, n), NEW l, NEW t, NEW e, n = <<l, t, e>>, t # e,
         NEW g1 \in G, NEW g2 \in G, g1 # g2, g1[3] = t, g2[3] = e, NEW h, h \notin G, h[3] = n
  PROVE  Exact(Extend(R, n, 1), ((G \ {g1}) \ {g2}) \cup {h}) /\ DOMAIN Extend(R, n, 1) = DOMAIN R \cup {n}
<1> /\ n \notin DOMAIN R /\ n \notin Owned /\ \A g \in G : g[3] # n
    /\ \A m \in DOMAIN R \cup {n} : m[2] # n /\ m[3] # n
  BY DEF Fresh
<1> IsFiniteSet(G) /\ IsFiniteSet(DOMAIN R) /\ R = [m \in DOMAIN R |-> R[m]]
  BY DEF Exact
<1>1. PICK Q : Q = Extend(R, n, 1)
  OBVIOUS
<1>2. /\ DOMAIN Q = DOMAIN R \cup {n} /\ Q = [m \in DOMAIN Q |-> Q[m]]
      /\ Q[n] = 1 /\ \A m \in DOMAIN R : Q[m] = R[m]
  <2>1. DOMAIN Q = DOMAIN R \cup {n} /\ Q = [m \in DOMAIN R \cup {n} |-> IF m = n THEN 1 ELSE R[m]]
    BY <1>1 DEF Extend
  <2> QED BY <2>1
<1>3. PICK H1, H2, H3 : H1 = G \ {g1} /\ H2 = H1 \ {g2} /\ H3 = H2 \cup {h}
  OBVIOUS
<1>4. IsFiniteSet(H1) /\ IsFiniteSet(H2) /\ IsFiniteSet(H3) /\ g2 \in H1 /\ h \notin H2
  BY <1>3, FS_RemoveElement, FS_AddElement
<1>5. IsFiniteSet(DOMAIN Q)
  BY <1>2, FS_AddElement
<1>6. ASSUME NEW m
      PROVE  Cardinality(Refs(H3, m)) = Cardinality(Refs(G, m)) - (IF t = m THEN 1 ELSE 0)
                                          - (IF e = m THEN 1 ELSE 0) + (IF n = m THEN 1 ELSE 0)
  <2>1. Cardinality(Refs(H1, m)) = Cardinality(Refs(G, m)) - IF g1[3] = m THEN 1 ELSE 0
    BY <1>3, RefsRemove
  <2>2. Cardinality(Refs(H2, m)) = Cardinality(Refs(H1, m)) - IF g2[3] = m THEN 1 ELSE 0
    BY <1>3, <1>4, RefsRemove
  <2>3. Cardinality(Refs(H3, m)) = Cardinality(Refs(H2, m)) + IF h[3] = m THEN 1 ELSE 0
    BY <1>3, <1>4, RefsAdd
  <2> QED BY <2>1, <2>2, <2>3
<1>7. ASSUME NEW m
      PROVE  ParentEdges(DOMAIN Q, m) = ParentEdges(DOMAIN R, m) \cup ParentEdges({n}, m)
  BY <1>2 DEF ParentEdges
<1>8. Q[n] = Cardinality(ParentEdges(DOMAIN Q, n)) + Cardinality({n} \cap Owned) + Cardinality(Refs(H3, n))
  <2>1. t # n /\ e # n
    <3>1. n[2] = t /\ n[3] = e
      OBVIOUS
    <3> QED BY <3>1
  <2>2. ParentEdges(DOMAIN Q, n) = {}
    <3> SUFFICES ASSUME NEW x \in ParentEdges(DOMAIN Q, n) PROVE FALSE
      OBVIOUS
    <3>1. x \in (DOMAIN Q) \X {1, 2} /\ Children(x[1])[x[2]] = n
      BY DEF ParentEdges
    <3>2. PICK m \in DOMAIN R \cup {n}, i \in {1, 2} : x[1] = m /\ x[2] = i
      BY <1>2, <3>1
    <3>3. <<m[2], m[3]>>[i] = n
      BY <3>1, <3>2 DEF Children
    <3>4. <<m[2], m[3]>>[i] = m[2] \/ <<m[2], m[3]>>[i] = m[3]
      OBVIOUS
    <3> QED BY <3>3, <3>4
  <2>3. Cardinality({n} \cap Owned) = 0 /\ Cardinality(ParentEdges(DOMAIN Q, n)) = 0
    BY <2>2, FiniteCounts, FS_EmptySet
  <2>4. Refs(G, n) = {}
    BY DEF Refs
  <2>5. Cardinality(Refs(G, n)) = 0
    BY <2>4, FS_EmptySet
  <2>6. Cardinality(Refs(H3, n)) = 1
    BY <1>6, <2>1, <2>5
  <2> QED BY <1>2, <2>3, <2>6
<1>9. ASSUME NEW m \in DOMAIN R
      PROVE  Q[m] = Cardinality(ParentEdges(DOMAIN Q, m)) + Cardinality({m} \cap Owned)
                      + Cardinality(Refs(H3, m))
  <2>1. m # n
    OBVIOUS
  <2>2. PICK a, b, c, d, z : /\ a = Cardinality(ParentEdges(DOMAIN R, m)) /\ b = Cardinality({m} \cap Owned)
                          /\ c = Cardinality(Refs(G, m)) /\ d = Cardinality(Refs(H3, m))
                          /\ z = Cardinality(ParentEdges(DOMAIN Q, m))
    OBVIOUS
  <2>3. a \in Nat /\ b \in Nat /\ c \in Nat /\ IsFiniteSet(ParentEdges(DOMAIN R, m))
    BY <2>2, FiniteCounts
  <2>4. R[m] = a + b + c
    BY <2>2 DEF Exact
  <2>5. d = c - (IF t = m THEN 1 ELSE 0) - (IF e = m THEN 1 ELSE 0) + 0
    BY <1>6, <2>1, <2>2
  <2>6. z = a + (IF t = m THEN 1 ELSE 0) + (IF e = m THEN 1 ELSE 0)
    <3>0. n[2] = t /\ n[3] = e
      OBVIOUS
    <3>1. ASSUME NEW i \in {1, 2}, ParentEdges({n}, m) = {<<n, i>>} PROVE z = a + 1
      <4>1. <<n, i>> \notin ParentEdges(DOMAIN R, m)
        BY DEF ParentEdges
      <4>2. PICK y, E : y = <<n, i>> /\ E = ParentEdges(DOMAIN R, m)
        OBVIOUS
      <4>3. IsFiniteSet(E) /\ y \notin E /\ Cardinality(E) = a
        BY <2>2, <2>3, <4>1, <4>2
      <4>4. Cardinality(E \cup {y}) = a + 1
        BY ONLY <4>3, FS_AddElement
      <4> QED BY <1>7, <2>2, <3>1, <4>2, <4>4
    <3>2. ASSUME ParentEdges({n}, m) = {} PROVE z = a
      <4>1. ParentEdges(DOMAIN Q, m) = ParentEdges(DOMAIN R, m)
        <5>1. ParentEdges(DOMAIN Q, m) = ParentEdges(DOMAIN R, m) \cup ParentEdges({n}, m)
          BY <1>7
        <5> QED BY <3>2, <5>1
      <4> QED BY <2>2, <4>1
    <3>3. CASE m = t
      <4>1. ParentEdges({n}, m) = {<<n, 1>>}
        BY <3>0, <3>3, OwnChildren
      <4>2. z = a + 1
        BY <3>1, <4>1
      <4> QED BY <2>3, <3>3, <4>2
    <3>4. CASE m = e
      <4>1. ParentEdges({n}, m) = {<<n, 2>>}
        BY <3>0, <3>4, OwnChildren
      <4>2. z = a + 1
        BY <3>1, <4>1
      <4> QED BY <2>3, <3>4, <4>2
    <3>5. CASE m # t /\ m # e
      <4>1. ParentEdges({n}, m) = {}
        BY <3>0, <3>5, OwnChildren
      <4>2. z = a
        BY <3>2, <4>1
      <4> QED BY <2>3, <3>5, <4>2
    <3> QED BY <3>3, <3>4, <3>5
  <2>7. Q[m] = z + b + d
    BY <1>2, <2>3, <2>4, <2>5, <2>6
  <2> QED BY <2>2, <2>7
<1>10. Exact(Q, H3)
  BY <1>2, <1>4, <1>5, <1>8, <1>9 DEF Exact
<1> QED BY <1>1, <1>2, <1>3, <1>10

\* What the gc removes: nodes that only the table refers to.
Dead(R, l) == {n \in DOMAIN R : Level(n) = l /\ R[n] = 0}

\* The counts after the gc has removed the nodes in X.
Without(R, X) == [n \in DOMAIN R \ X |-> R[n] - Cardinality(ParentEdges(X, n))]

\* A node with count 0 has no parents, no owner and no holder.
LEMMA UncountedNode ==
  ASSUME NEW R, NEW G, Exact(R, G), NEW n \in DOMAIN R, R[n] = 0
  PROVE  ParentEdges(DOMAIN R, n) = {} /\ n \notin Owned /\ \A g \in G : g[3] # n
<1> IsFiniteSet(G) /\ IsFiniteSet(DOMAIN R)
  BY DEF Exact
<1>1. PICK a, b, c : /\ a = Cardinality(ParentEdges(DOMAIN R, n)) /\ b = Cardinality({n} \cap Owned)
                     /\ c = Cardinality(Refs(G, n))
  OBVIOUS
<1>2. a \in Nat /\ b \in Nat /\ c \in Nat /\ IsFiniteSet(ParentEdges(DOMAIN R, n)) /\ IsFiniteSet(Refs(G, n))
  BY <1>1, FiniteCounts
<1>3. R[n] = a + b + c
  BY <1>1 DEF Exact
<1>4. a = 0 /\ b = 0 /\ c = 0
  BY <1>2, <1>3
<1>5. ParentEdges(DOMAIN R, n) = {} /\ Refs(G, n) = {}
  BY <1>1, <1>2, <1>4, FS_EmptySet
<1>6. n \notin Owned
  <2>1. n \in Owned => Cardinality({n} \cap Owned) = 1
    BY FiniteCounts
  <2> QED BY <1>1, <1>4, <2>1
<1> QED BY <1>5, <1>6 DEF Refs

\* The counts stay exact when the gc removes the dead nodes of a level.
LEMMA ExactSweep ==
  ASSUME NEW R, NEW G, Exact(R, G), NEW l, NEW X, X = Dead(R, l)
  PROVE  Exact(Without(R, X), G) /\ DOMAIN Without(R, X) = DOMAIN R \ X
<1> IsFiniteSet(G) /\ IsFiniteSet(DOMAIN R)
  BY DEF Exact
<1>1. PICK Q : Q = Without(R, X)
  OBVIOUS
<1>2. /\ DOMAIN Q = DOMAIN R \ X /\ Q = [n \in DOMAIN Q |-> Q[n]]
      /\ \A n \in DOMAIN R \ X : Q[n] = R[n] - Cardinality(ParentEdges(X, n))
  BY <1>1 DEF Without
<1>3. IsFiniteSet(DOMAIN Q) /\ X \subseteq DOMAIN R
  <2>1. X \subseteq DOMAIN R
    BY DEF Dead
  <2> QED BY <1>2, <2>1, FS_Subset
<1>4. ASSUME NEW n \in DOMAIN Q
      PROVE  Q[n] = Cardinality(ParentEdges(DOMAIN Q, n)) + Cardinality({n} \cap Owned)
                      + Cardinality(Refs(G, n))
  <2>1. n \in DOMAIN R /\ n \notin X
    BY <1>2
  <2>2. PICK a, b, c, d, z : /\ a = Cardinality(ParentEdges(DOMAIN R, n)) /\ b = Cardinality({n} \cap Owned)
                             /\ c = Cardinality(Refs(G, n)) /\ d = Cardinality(ParentEdges(X, n))
                             /\ z = Cardinality(ParentEdges(DOMAIN Q, n))
    OBVIOUS
  <2>3. a \in Nat /\ b \in Nat /\ c \in Nat /\ IsFiniteSet(ParentEdges(DOMAIN R, n))
    BY <2>2, FiniteCounts
  <2>4. R[n] = a + b + c
    BY <2>1, <2>2 DEF Exact
  <2>5. z = a - d /\ d \in Nat
    <3>1. ParentEdges(DOMAIN R, n) = ParentEdges(DOMAIN Q, n) \cup ParentEdges(X, n)
      BY <1>2, <1>3 DEF ParentEdges
    <3>2. ParentEdges(DOMAIN Q, n) \cap ParentEdges(X, n) = {}
      BY <1>2 DEF ParentEdges
    <3>3. /\ IsFiniteSet(ParentEdges(DOMAIN Q, n)) /\ IsFiniteSet(ParentEdges(X, n))
          /\ z \in Nat /\ d \in Nat
      <4>1. IsFiniteSet(ParentEdges(DOMAIN Q, n)) /\ IsFiniteSet(ParentEdges(X, n))
        BY <2>3, <3>1, FS_Subset
      <4> QED BY <2>2, <4>1, FS_CardinalityType
    <3>4. Cardinality(ParentEdges(DOMAIN Q, n) \cup ParentEdges(X, n))
            = z + d - Cardinality(ParentEdges(DOMAIN Q, n) \cap ParentEdges(X, n))
      BY <2>2, <3>3, FS_Union
    <3>5. a = z + d - 0
      BY <2>2, <3>1, <3>2, <3>4, FS_EmptySet
    <3> QED BY <2>3, <3>3, <3>5
  <2>6. Q[n] = R[n] - d
    BY <1>2, <2>2
  <2>7. Q[n] = z + b + c
    BY <2>3, <2>4, <2>5, <2>6
  <2> QED BY <2>2, <2>7
<1>5. Exact(Q, G)
  BY <1>2, <1>3, <1>4 DEF Exact
<1> QED BY <1>1, <1>2, <1>5

-----------------------------------------------------------------------------
(* The inductive invariant.                                                *)

\* The identifiers of tasks.
Idents == Seq(Clients \cup {1, 2}) \ {<<>>}

IsCall(op, args) == op \in Operators /\ args \in Operands(op, Edges(Nodes))

\* The edges that a task holds.
Part(id, x) == {y \in {<<id, "t", x.t>>, <<id, "e", x.e>>, <<id, "h", x.h>>} : y[3] # NoEdge}
Parts(T, J) == UNION {Part(id, T[id]) : id \in J \cap DOMAIN T}
Graph(T)    == UNION {Part(id, T[id]) : id \in DOMAIN T}

\* The fields of a task.
Fields(x) ==
  /\ x = [call |-> x.call, op |-> x.op, args |-> x.args, sequential |-> x.sequential,
          depth |-> x.depth, pc |-> x.pc, t |-> x.t, e |-> x.e, h |-> x.h]
  /\ IsCall(x.op, x.args) /\ IsCall(x.call[1], x.call[2])
  /\ x.sequential \in BOOLEAN /\ x.depth \in 0 .. MaxDepth
  /\ x.pc \in {"start", "then", "else", "join", "reduce", "add", "ok", "err"}

\* At each point of the algorithm a task holds certain edges, to nodes in D.
Holds(x, D) ==
  /\ IF x.pc \in {"else", "reduce"} THEN x.t \in Edges(D) ELSE x.t = NoEdge
  /\ IF x.pc = "reduce" THEN x.e \in Edges(D) ELSE x.e = NoEdge
  /\ IF x.pc \in {"add", "ok"} THEN x.h \in Edges(D) ELSE x.h = NoEdge

\* What a task works on has the result of its call, and so have the parts of it.
Faithful(x) ==
  /\ Same(x.op, x.args, x.call[1], x.call[2])
  /\ x.pc \in {"then", "else", "join", "reduce"} => LevelOf(x.args) < NumVars
  /\ x.pc \in {"else", "reduce"} => Right(x.t, x.op, Cofactors(x.args, 1))
  /\ x.pc = "reduce" => Right(x.e, x.op, Cofactors(x.args, 2))
  /\ x.pc = "add" => Right(x.h, x.op, x.args)
  /\ x.pc = "ok" => Right(x.h, x.call[1], x.call[2])

TaskOK(x, D) == Fields(x) /\ Holds(x, D) /\ Faithful(x)
TasksOK(T, D) == \A id \in DOMAIN T : TaskOK(T[id], D)

\* c is a recursive call of id only while id waits for it, and it is for cofactor i.
Child(T, id, c, i, S) ==
  c \in DOMAIN T => /\ id \in DOMAIN T /\ T[id].pc \in S
                    /\ T[c].call = <<T[id].op, Cofactors(T[id].args, i)>>

Tree(T) ==
  /\ T = [id \in DOMAIN T |-> T[id]] /\ DOMAIN T \subseteq Idents
  /\ \A id \in Idents : /\ Child(T, id, First(id), 1, {"then", "join"})
                        /\ Child(T, id, Second(id), 2, {"else", "join"})

\* The tables hold a diagram with the nodes of clients.
TableOK(D) ==
  IsDiagram(D) /\ IsFiniteSet(D) /\ Cardinality(D) <= MaxNodes /\ Nodes \subseteq D

\* The entries of the cache are right, and there are none while the gc runs.
CacheOK(C, D, gc) ==
  /\ gc => DOMAIN C = {}
  /\ \A k \in DOMAIN C : C[k] \in Edges(D)
  /\ \A op, args : IsCall(op, args) /\ Key(op, args) \in DOMAIN C => Right(C[Key(op, args)], op, args)

Good(R, C, gc, T) ==
  /\ TableOK(DOMAIN R) /\ Exact(R, Graph(T)) /\ CacheOK(C, DOMAIN R, gc) /\ gc \in BOOLEAN
  /\ TasksOK(T, DOMAIN R) /\ Tree(T)

IInv == Good(rc, cache, gcRunning, task)

-----------------------------------------------------------------------------
(* Identifiers, held edges and larger tables.                              *)

\* Children of different tasks and of different kinds have different identifiers.
LEMMA IdentFacts ==
  ASSUME NEW a \in Idents
  PROVE  /\ First(a) \in Idents /\ Second(a) \in Idents
         /\ Len(a) \in Nat /\ Len(First(a)) = Len(a) + 1 /\ Len(Second(a)) = Len(a) + 1
         /\ Len(a) > 0
         /\ \A b \in Idents : /\ First(a) = First(b) => a = b
                              /\ Second(a) = Second(b) => a = b
                              /\ First(a) # Second(b)
<1> DEFINE S == Clients \cup {1, 2}
<1>1. a \in Seq(S) /\ a # <<>> /\ 1 \in S /\ 2 \in S
  BY DEF Idents
<1> HIDE DEF S
<1>2. ASSUME NEW b \in Seq(S), NEW i \in S
      PROVE  /\ Append(b, i) \in Seq(S) /\ Append(b, i) # <<>>
             /\ Len(Append(b, i)) = Len(b) + 1 /\ Append(b, i)[Len(b) + 1] = i
             /\ \A k \in 1 .. Len(b) : Append(b, i)[k] = b[k]
  BY AppendProperties
<1>3. ASSUME NEW b \in Seq(S), NEW c \in Seq(S), NEW i \in S, NEW j \in S, Append(b, i) = Append(c, j)
      PROVE  b = c /\ i = j
  <2>1. Len(b) \in Nat /\ Len(c) \in Nat
    BY LenProperties
  <2>2. Len(Append(b, i)) = Len(b) + 1 /\ Len(Append(c, j)) = Len(c) + 1
    BY <1>2
  <2>3. Len(b) = Len(c)
    BY <1>3, <2>1, <2>2
  <2>4. i = j
    BY <1>2, <1>3, <2>3
  <2>5. \A k \in 1 .. Len(b) : b[k] = c[k]
    BY <1>2, <1>3, <2>3
  <2> QED BY <2>3, <2>4, <2>5, SeqEqual
<1>4. First(a) \in Idents /\ Second(a) \in Idents
  BY <1>1, <1>2 DEF First, Second, Idents, S
<1>5. Len(a) \in Nat /\ Len(First(a)) = Len(a) + 1 /\ Len(Second(a)) = Len(a) + 1
  BY <1>1, <1>2, LenProperties DEF First, Second
<1>6. Len(a) > 0
  BY <1>1, EmptySeq, LenProperties
<1>7. ASSUME NEW b \in Idents
      PROVE  /\ First(a) = First(b) => a = b
             /\ Second(a) = Second(b) => a = b
             /\ First(a) # Second(b)
  <2>1. b \in Seq(S)
    BY DEF Idents, S
  <2> QED BY <1>1, <1>3, <2>1 DEF First, Second
<1> QED BY <1>4, <1>5, <1>6, <1>7

\* The identifier of a client's call is not that of a recursive call.
LEMMA ClientIdent ==
  ASSUME NEW c \in Clients
  PROVE  <<c>> \in Idents /\ \A a \in Idents : First(a) # <<c>> /\ Second(a) # <<c>>
<1>1. <<c>> \in Seq(Clients \cup {1, 2}) /\ <<c>> # <<>> /\ Len(<<c>>) = 1
  OBVIOUS
<1>2. ASSUME NEW a \in Idents PROVE First(a) # <<c>> /\ Second(a) # <<c>>
  <2>1. Len(First(a)) # 1 /\ Len(Second(a)) # 1
    <3>1. PICK k \in Nat : k = Len(a)
      BY IdentFacts
    <3>2. k > 0 /\ Len(First(a)) = k + 1 /\ Len(Second(a)) = k + 1
      BY <3>1, IdentFacts
    <3> QED BY <3>2
  <2>2. PICK q : q = <<c>>
    OBVIOUS
  <2>3. Len(q) = 1
    BY <1>1, <2>2
  <2>4. First(a) # q /\ Second(a) # q
    BY <2>1, <2>3
  <2> QED BY <2>2, <2>4
<1> QED BY <1>1, <1>2 DEF Idents

\* The held edges change only where the tasks change.
Agree(T, U, J) ==
  /\ DOMAIN T \ J = DOMAIN U \ J
  /\ \A id \in DOMAIN T \ J : U[id] = T[id]

LEMMA GraphChange ==
  ASSUME NEW T, NEW U, NEW J, Agree(T, U, J)
  PROVE  Graph(U) = (Graph(T) \ Parts(T, J)) \cup Parts(U, J)
<1>1. ASSUME NEW id, NEW x, NEW y \in Part(id, x) PROVE y[1] = id
  BY DEF Part
<1>2. ASSUME NEW y \in Graph(U) PROVE y \in (Graph(T) \ Parts(T, J)) \cup Parts(U, J)
  <2>1. PICK id \in DOMAIN U : y \in Part(id, U[id])
    BY DEF Graph
  <2>2. y[1] = id
    BY <1>1, <2>1
  <2>3. CASE id \in J
    BY <2>1, <2>3 DEF Parts
  <2>4. CASE id \notin J
    <3>1. id \in DOMAIN T /\ T[id] = U[id]
      BY <2>4 DEF Agree
    <3>2. y \in Graph(T)
      BY <2>1, <3>1 DEF Graph
    <3>3. y \notin Parts(T, J)
      <4> SUFFICES ASSUME NEW j \in J \cap DOMAIN T, y \in Part(j, T[j]) PROVE FALSE
        BY DEF Parts
      <4>1. y[1] = j
        BY <1>1
      <4> QED BY <2>2, <2>4, <4>1
    <3> QED BY <3>2, <3>3
  <2> QED BY <2>3, <2>4
<1>3. ASSUME NEW y \in Graph(T), y \notin Parts(T, J) PROVE y \in Graph(U)
  <2>1. PICK id \in DOMAIN T : y \in Part(id, T[id])
    BY DEF Graph
  <2>2. id \notin J
    BY <1>3, <2>1 DEF Parts
  <2>3. id \in DOMAIN U /\ U[id] = T[id]
    BY <2>2 DEF Agree
  <2> QED BY <2>1, <2>3 DEF Graph
<1>4. Parts(U, J) \subseteq Graph(U)
  BY DEF Parts, Graph
<1> QED BY <1>2, <1>3, <1>4

\* What a task holds, at each point of the algorithm.
LEMMA PartFacts ==
  ASSUME NEW D, IsDiagram(D), NEW x, Holds(x, D), NEW id
  PROVE  /\ x.pc \in {"start", "then", "join", "err"} => Part(id, x) = {}
         /\ x.pc = "else" => Part(id, x) = {<<id, "t", x.t>>}
         /\ x.pc = "reduce" => Part(id, x) = {<<id, "t", x.t>>, <<id, "e", x.e>>}
         /\ x.pc \in {"add", "ok"} => Part(id, x) = {<<id, "h", x.h>>}
         /\ \A y \in Part(id, x) : y[3] \in Edges(D) /\ y[1] = id
<1>1. NoEdge \notin Edges(D)
  BY EdgeFacts
<1>2. \A w : <<id, "t", w>>[3] = w /\ <<id, "e", w>>[3] = w /\ <<id, "h", w>>[3] = w
  OBVIOUS
<1>3. Part(id, x) = (IF x.t # NoEdge THEN {<<id, "t", x.t>>} ELSE {})
                      \cup (IF x.e # NoEdge THEN {<<id, "e", x.e>>} ELSE {})
                      \cup (IF x.h # NoEdge THEN {<<id, "h", x.h>>} ELSE {})
  BY <1>2 DEF Part
<1>4. x.pc \in {"start", "then", "join", "err"} => Part(id, x) = {}
  BY <1>1, <1>3 DEF Holds
<1>5. x.pc = "else" => Part(id, x) = {<<id, "t", x.t>>}
  BY <1>1, <1>3 DEF Holds
<1>6. x.pc = "reduce" => Part(id, x) = {<<id, "t", x.t>>, <<id, "e", x.e>>}
  BY <1>1, <1>3 DEF Holds
<1>7. x.pc \in {"add", "ok"} => Part(id, x) = {<<id, "h", x.h>>}
  BY <1>1, <1>3 DEF Holds
<1>8. ASSUME NEW y \in Part(id, x) PROVE y[3] \in Edges(D) /\ y[1] = id
  <2>1. y[3] # NoEdge /\ y \in {<<id, "t", x.t>>, <<id, "e", x.e>>, <<id, "h", x.h>>}
    BY DEF Part
  <2>2. x.t \in Edges(D) \/ x.t = NoEdge
    BY DEF Holds
  <2>3. x.e \in Edges(D) \/ x.e = NoEdge
    BY DEF Holds
  <2>4. x.h \in Edges(D) \/ x.h = NoEdge
    BY DEF Holds
  <2> QED BY <2>1, <2>2, <2>3, <2>4
<1> QED BY <1>4, <1>5, <1>6, <1>7, <1>8

\* A task stays right in a table with other nodes if those it holds are there.
LEMMA HoldsIn ==
  ASSUME NEW D, NEW B, NEW x, TaskOK(x, D),
         \A w \in Edges(D) : w \in {x.t, x.e, x.h} => w \in Edges(B)
  PROVE  TaskOK(x, B)
<1>1. Holds(x, B)
  BY DEF TaskOK, Holds
<1> QED BY <1>1 DEF TaskOK

-----------------------------------------------------------------------------
(* Steps of tasks.                                                         *)

\* A task that does not wait has no recursive calls.
LEMMA NoChildren ==
  ASSUME NEW T, Tree(T), NEW id \in DOMAIN T
  PROVE  /\ id \in Idents
         /\ T[id].pc \notin {"then", "join"} => First(id) \notin DOMAIN T
         /\ T[id].pc \notin {"else", "join"} => Second(id) \notin DOMAIN T
         /\ First(id) \in DOMAIN T => T[First(id)].call = <<T[id].op, Cofactors(T[id].args, 1)>>
         /\ Second(id) \in DOMAIN T => T[Second(id)].call = <<T[id].op, Cofactors(T[id].args, 2)>>
<1>1. id \in Idents
  BY DEF Tree
<1>2. Child(T, id, First(id), 1, {"then", "join"}) /\ Child(T, id, Second(id), 2, {"else", "join"})
  BY <1>1, Zenon DEF Tree
<1> QED BY <1>1, <1>2, Zenon DEF Child

\* The other tasks stay right when the table grows.
LEMMA TasksInLarger ==
  ASSUME NEW T, NEW D, NEW B, TasksOK(T, D), D \subseteq B, NEW id \in DOMAIN T
  PROVE  TaskOK(T[id], B)
<1>1. TaskOK(T[id], D)
  BY DEF TasksOK
<1>2. Edges(D) \subseteq Edges(B)
  BY DEF Edges
<1> QED BY <1>1, <1>2, HoldsIn

\* One task goes on and others do not change.
LEMMA OneTaskChanges ==
  ASSUME NEW R, NEW C, NEW gc, NEW T, Good(R, C, gc, T), NEW id \in DOMAIN T,
         T[id].pc \notin {"then", "else", "join"},
         NEW y, y.call = T[id].call, NEW Q, NEW K,
         TableOK(DOMAIN Q), DOMAIN R \subseteq DOMAIN Q, CacheOK(K, DOMAIN Q, gc),
         TaskOK(y, DOMAIN Q), Exact(Q, (Graph(T) \ Part(id, T[id])) \cup Part(id, y))
  PROVE  Good(Q, K, gc, [T EXCEPT ![id] = y])
<1>0. TasksOK(T, DOMAIN R) /\ Tree(T) /\ gc \in BOOLEAN
  BY DEF Good
<1>1. PICK U : U = [T EXCEPT ![id] = y]
  OBVIOUS
<1>2. /\ U = [j \in DOMAIN U |-> U[j]] /\ DOMAIN U = DOMAIN T /\ U[id] = y
      /\ \A j \in DOMAIN T : j # id => U[j] = T[j]
  <2>1. T = [j \in DOMAIN T |-> T[j]]
    BY <1>0 DEF Tree
  <2> QED BY <1>1, <2>1
<1>3. Graph(U) = (Graph(T) \ Part(id, T[id])) \cup Part(id, y)
  <2>1. Agree(T, U, {id})
    BY <1>2 DEF Agree
  <2>2. Graph(U) = (Graph(T) \ Parts(T, {id})) \cup Parts(U, {id})
    BY <2>1, GraphChange
  <2>3. Parts(T, {id}) = Part(id, T[id]) /\ Parts(U, {id}) = Part(id, y)
    <3>1. {id} \cap DOMAIN T = {id} /\ {id} \cap DOMAIN U = {id}
      BY <1>2
    <3> QED BY <1>2, <3>1 DEF Parts
  <2> QED BY <2>2, <2>3
<1>4. TasksOK(U, DOMAIN Q)
  <2> SUFFICES ASSUME NEW j \in DOMAIN U PROVE TaskOK(U[j], DOMAIN Q)
    BY DEF TasksOK
  <2>1. CASE j = id
    BY <1>2, <2>1
  <2>2. CASE j # id
    <3>1. U[j] = T[j] /\ j \in DOMAIN T
      BY <1>2, <2>2
    <3> QED BY <1>0, <3>1, TasksInLarger
  <2> QED BY <2>1, <2>2
<1>5. Tree(U)
  <2>1. DOMAIN U \subseteq Idents
    BY <1>0, <1>2 DEF Tree
  <2>2. \A j \in DOMAIN T : U[j].call = T[j].call
    BY <1>2
  <2>3. First(id) \notin DOMAIN T /\ Second(id) \notin DOMAIN T
    BY <1>0, NoChildren
  <2>4. ASSUME NEW p \in Idents
        PROVE  Child(U, p, First(p), 1, {"then", "join"}) /\ Child(U, p, Second(p), 2, {"else", "join"})
    <3>1. Child(T, p, First(p), 1, {"then", "join"}) /\ Child(T, p, Second(p), 2, {"else", "join"})
      BY <1>0, Zenon DEF Tree
    <3>2. ASSUME First(p) \in DOMAIN U PROVE p \in DOMAIN U /\ U[p] = T[p] /\ U[First(p)].call = T[First(p)].call
      <4>1. First(p) \in DOMAIN T /\ p # id
        BY <1>2, <2>3, <3>2
      <4>2. p \in DOMAIN T
        BY <3>1, <4>1 DEF Child
      <4> QED BY <1>2, <2>2, <4>1, <4>2
    <3>3. ASSUME Second(p) \in DOMAIN U PROVE p \in DOMAIN U /\ U[p] = T[p] /\ U[Second(p)].call = T[Second(p)].call
      <4>1. Second(p) \in DOMAIN T /\ p # id
        BY <1>2, <2>3, <3>3
      <4>2. p \in DOMAIN T
        BY <3>1, <4>1 DEF Child
      <4> QED BY <1>2, <2>2, <4>1, <4>2
    <3> QED BY <1>2, <3>1, <3>2, <3>3 DEF Child
  <2> QED BY <1>2, <2>1, <2>4 DEF Tree
<1>6. Good(Q, K, gc, U)
  BY <1>0, <1>3, <1>4, <1>5 DEF Good
<1> QED BY <1>1, <1>6

\* A task with identifier c and call fits where some task waits for it.
Fits(T, c, call) ==
  \A p \in Idents :
    /\ First(p) = c => /\ p \in DOMAIN T /\ T[p].pc \in {"then", "join"}
                       /\ call = <<T[p].op, Cofactors(T[p].args, 1)>>
    /\ Second(p) = c => /\ p \in DOMAIN T /\ T[p].pc \in {"else", "join"}
                        /\ call = <<T[p].op, Cofactors(T[p].args, 2)>>

\* A task starts.
LEMMA TaskStarts ==
  ASSUME NEW R, NEW C, NEW gc, NEW T, Good(R, C, gc, T), NEW c \in Idents, c \notin DOMAIN T,
         NEW x, TaskOK(x, DOMAIN R), x.pc = "start", Fits(T, c, x.call)
  PROVE  Good(R, C, gc, Extend(T, c, x))
<1>0. /\ TasksOK(T, DOMAIN R) /\ Tree(T) /\ gc \in BOOLEAN /\ TableOK(DOMAIN R)
      /\ Exact(R, Graph(T)) /\ CacheOK(C, DOMAIN R, gc)
  BY DEF Good
<1>1. PICK U : U = Extend(T, c, x)
  OBVIOUS
<1>2. /\ U = [j \in DOMAIN U |-> U[j]] /\ DOMAIN U = DOMAIN T \cup {c} /\ U[c] = x
      /\ \A j \in DOMAIN T : U[j] = T[j]
  BY <1>1 DEF Extend
<1>3. Graph(U) = Graph(T)
  <2>1. Agree(T, U, {c})
    BY <1>2 DEF Agree
  <2>2. Graph(U) = (Graph(T) \ Parts(T, {c})) \cup Parts(U, {c})
    BY <2>1, GraphChange
  <2>3. Part(c, x) = {}
    BY <1>0, PartFacts DEF TaskOK, TableOK
  <2>4. Parts(T, {c}) = {} /\ Parts(U, {c}) = {}
    <3>1. {c} \cap DOMAIN T = {} /\ {c} \cap DOMAIN U = {c}
      BY <1>2
    <3> QED BY <1>2, <2>3, <3>1 DEF Parts
  <2> QED BY <2>2, <2>4
<1>4. TasksOK(U, DOMAIN R)
  BY <1>0, <1>2 DEF TasksOK
<1>5. Tree(U)
  <2>1. DOMAIN U \subseteq Idents
    BY <1>0, <1>2 DEF Tree
  <2>2. ASSUME NEW p \in Idents
        PROVE  Child(U, p, First(p), 1, {"then", "join"}) /\ Child(U, p, Second(p), 2, {"else", "join"})
    <3>1. Child(T, p, First(p), 1, {"then", "join"}) /\ Child(T, p, Second(p), 2, {"else", "join"})
      BY <1>0, Zenon DEF Tree
    <3>2. ASSUME First(p) \in DOMAIN U
          PROVE  /\ p \in DOMAIN U /\ U[p].pc \in {"then", "join"}
                 /\ U[First(p)].call = <<U[p].op, Cofactors(U[p].args, 1)>>
      <4>1. CASE First(p) = c
        <5>1. p \in DOMAIN T /\ T[p].pc \in {"then", "join"} /\ x.call = <<T[p].op, Cofactors(T[p].args, 1)>>
          BY <4>1, Zenon DEF Fits
        <5> QED BY <1>2, <4>1, <5>1
      <4>2. CASE First(p) # c
        <5>1. First(p) \in DOMAIN T
          BY <1>2, <3>2, <4>2
        <5>2. p \in DOMAIN T /\ T[p].pc \in {"then", "join"} /\ T[First(p)].call = <<T[p].op, Cofactors(T[p].args, 1)>>
          BY <3>1, <5>1, Zenon DEF Child
        <5> QED BY <1>2, <5>1, <5>2
      <4> QED BY <4>1, <4>2
    <3>3. ASSUME Second(p) \in DOMAIN U
          PROVE  /\ p \in DOMAIN U /\ U[p].pc \in {"else", "join"}
                 /\ U[Second(p)].call = <<U[p].op, Cofactors(U[p].args, 2)>>
      <4>1. CASE Second(p) = c
        <5>1. p \in DOMAIN T /\ T[p].pc \in {"else", "join"} /\ x.call = <<T[p].op, Cofactors(T[p].args, 2)>>
          BY <4>1, Zenon DEF Fits
        <5> QED BY <1>2, <4>1, <5>1
      <4>2. CASE Second(p) # c
        <5>1. Second(p) \in DOMAIN T
          BY <1>2, <3>3, <4>2
        <5>2. p \in DOMAIN T /\ T[p].pc \in {"else", "join"} /\ T[Second(p)].call = <<T[p].op, Cofactors(T[p].args, 2)>>
          BY <3>1, <5>1, Zenon DEF Child
        <5> QED BY <1>2, <5>1, <5>2
      <4> QED BY <4>1, <4>2
    <3> QED BY <3>2, <3>3, Zenon DEF Child
  <2> QED BY <1>2, <2>1, <2>2 DEF Tree
<1>6. Good(R, C, gc, U)
  BY <1>0, <1>3, <1>4, <1>5 DEF Good
<1> QED BY <1>1, <1>6

\* The recursive calls S of a task have returned, and it goes on.
LEMMA TasksReturn ==
  ASSUME NEW R, NEW C, NEW gc, NEW T, Good(R, C, gc, T), NEW id \in DOMAIN T,
         NEW S, S \subseteq {First(id), Second(id)}, {First(id), Second(id)} \cap DOMAIN T = S,
         \A s \in S : T[s].pc \in {"ok", "err"},
         NEW y, y.call = T[id].call, TaskOK(y, DOMAIN R),
         NEW Q, DOMAIN Q = DOMAIN R, Exact(Q, (Graph(T) \ (Part(id, T[id]) \cup Parts(T, S))) \cup Part(id, y))
  PROVE  Good(Q, C, gc, Removed([T EXCEPT ![id] = y], S))
<1>0. /\ TasksOK(T, DOMAIN R) /\ Tree(T) /\ gc \in BOOLEAN /\ TableOK(DOMAIN R)
      /\ CacheOK(C, DOMAIN R, gc)
  BY DEF Good
<1>1. PICK U : U = Removed([T EXCEPT ![id] = y], S)
  OBVIOUS
<1>a. id \in Idents /\ id \notin S
  <2>1. id \in Idents
    BY <1>0 DEF Tree
  <2>2. PICK k \in Nat : k = Len(id) /\ Len(First(id)) = k + 1 /\ Len(Second(id)) = k + 1
    BY <2>1, IdentFacts
  <2>3. Len(id) # Len(First(id)) /\ Len(id) # Len(Second(id))
    BY <2>2
  <2> QED BY <2>1, <2>3
<1>2. /\ U = [j \in DOMAIN U |-> U[j]] /\ DOMAIN U = DOMAIN T \ S /\ id \in DOMAIN U /\ U[id] = y
      /\ \A j \in DOMAIN U : j # id => U[j] = T[j]
  <2>1. DOMAIN [T EXCEPT ![id] = y] = DOMAIN T /\ [T EXCEPT ![id] = y][id] = y
    OBVIOUS
  <2>2. \A j \in DOMAIN T : j # id => [T EXCEPT ![id] = y][j] = T[j]
    OBVIOUS
  <2> QED BY <1>1, <1>a, <2>1, <2>2 DEF Removed
<1>3. Graph(U) = (Graph(T) \ (Part(id, T[id]) \cup Parts(T, S))) \cup Part(id, y)
  <2>1. Agree(T, U, {id} \cup S)
    BY <1>2 DEF Agree
  <2>2. Graph(U) = (Graph(T) \ Parts(T, {id} \cup S)) \cup Parts(U, {id} \cup S)
    BY <2>1, GraphChange
  <2>3. Parts(U, {id} \cup S) = Part(id, y)
    <3>1. ({id} \cup S) \cap DOMAIN U = {id}
      BY <1>2
    <3> QED BY <1>2, <3>1 DEF Parts
  <2>4. Parts(T, {id} \cup S) = Part(id, T[id]) \cup Parts(T, S)
    <3>1. ({id} \cup S) \cap DOMAIN T = {id} \cup (S \cap DOMAIN T)
      OBVIOUS
    <3> QED BY <3>1 DEF Parts
  <2> QED BY <2>2, <2>3, <2>4
<1>4. TasksOK(U, DOMAIN Q)
  BY <1>0, <1>2 DEF TasksOK
<1>5. Tree(U)
  <2>1. DOMAIN U \subseteq Idents
    BY <1>0, <1>2 DEF Tree
  <2>2. \A j \in DOMAIN U : j \in DOMAIN T /\ U[j].call = T[j].call
    BY <1>2
  <2>4. ASSUME NEW p \in Idents
        PROVE  Child(U, p, First(p), 1, {"then", "join"}) /\ Child(U, p, Second(p), 2, {"else", "join"})
    <3>1. Child(T, p, First(p), 1, {"then", "join"}) /\ Child(T, p, Second(p), 2, {"else", "join"})
      BY <1>0, Zenon DEF Tree
    <3>2. ASSUME First(p) \in DOMAIN U PROVE p \in DOMAIN U /\ U[p] = T[p] /\ U[First(p)].call = T[First(p)].call
      <4>1. First(p) \in DOMAIN T /\ p # id
        BY <1>2, <3>2
      <4>2. p \in DOMAIN T /\ T[p].pc \in {"then", "join"}
        BY <3>1, <4>1, Zenon DEF Child
      <4>3. p \notin S
        BY <4>2
      <4> QED BY <1>2, <2>2, <3>2, <4>1, <4>2, <4>3
    <3>3. ASSUME Second(p) \in DOMAIN U PROVE p \in DOMAIN U /\ U[p] = T[p] /\ U[Second(p)].call = T[Second(p)].call
      <4>1. Second(p) \in DOMAIN T /\ p # id
        BY <1>2, <3>3
      <4>2. p \in DOMAIN T /\ T[p].pc \in {"else", "join"}
        BY <3>1, <4>1, Zenon DEF Child
      <4>3. p \notin S
        BY <4>2
      <4> QED BY <1>2, <2>2, <3>3, <4>1, <4>2, <4>3
    <3> QED BY <2>2, <3>1, <3>2, <3>3 DEF Child
  <2> QED BY <1>2, <2>1, <2>4 DEF Tree
<1>6. Good(Q, C, gc, U)
  BY <1>0, <1>3, <1>4, <1>5 DEF Good
<1> QED BY <1>1, <1>6

\* Held edges refer to the table, and belong to the task that their triple names.
LEMMA HeldFacts ==
  ASSUME NEW T, NEW D, IsDiagram(D), TasksOK(T, D), NEW y \in Graph(T)
  PROVE  y[3] \in Edges(D) /\ y[1] \in DOMAIN T /\ y \in Part(y[1], T[y[1]])
<1>1. PICK id \in DOMAIN T : y \in Part(id, T[id])
  BY DEF Graph
<1>2. Holds(T[id], D)
  BY DEF TasksOK, TaskOK
<1>3. y[3] \in Edges(D) /\ y[1] = id
  BY <1>1, <1>2, PartFacts
<1> QED BY <1>1, <1>3

\* What a good state is made of.
LEMMA GoodFacts ==
  ASSUME IInv
  PROVE  /\ TasksOK(task, DOMAIN rc) /\ Tree(task) /\ gcRunning \in BOOLEAN /\ TableOK(DOMAIN rc)
         /\ Exact(rc, Graph(task)) /\ CacheOK(cache, DOMAIN rc, gcRunning)
         /\ IsDiagram(DOMAIN rc) /\ Edges(Nodes) \subseteq Edges(DOMAIN rc)
         /\ \A id \in DOMAIN task : TaskOK(task[id], DOMAIN rc)
BY DEF IInv, Good, TableOK, Edges, TasksOK

\* The operands of a call are a sequence of edges of the clients' diagrams.
LEMMA CallFacts ==
  ASSUME NEW op, NEW args, IsCall(op, args)
  PROVE  /\ IsDiagram(Nodes) /\ op \in Operators /\ args \in Operands(op, Edges(Nodes))
         /\ \E k \in {1, 2, 3} : /\ Operands(op, Edges(Nodes)) = [1 .. k -> Edges(Nodes)]
                                 /\ args \in [1 .. k -> Edges(Nodes)]
BY ParallelAssumption, OperandsSequence DEF IsCall

\* A result of what a task works on is a result of its call.
LEMMA RightForCall ==
  ASSUME NEW D, IsDiagram(D), NEW x, Fields(x), Faithful(x), NEW w \in Edges(D), Right(w, x.op, x.args)
  PROVE  Right(w, x.call[1], x.call[2])
<1>1. IsCall(x.op, x.args) /\ IsCall(x.call[1], x.call[2])
  BY DEF Fields
<1>2. PICK k \in {1, 2, 3} : x.args \in [1 .. k -> Edges(Nodes)]
  BY <1>1, CallFacts
<1>3. PICK j \in {1, 2, 3} : x.call[2] \in [1 .. j -> Edges(Nodes)]
  BY <1>1, CallFacts
<1>4. Same(x.op, x.args, x.call[1], x.call[2]) /\ IsDiagram(Nodes)
  BY ParallelAssumption DEF Faithful
<1>5. PICK op, args, op2, args2 : op = x.op /\ args = x.args /\ op2 = x.call[1] /\ args2 = x.call[2]
  OBVIOUS
<1>6. /\ args \in [1 .. k -> Edges(Nodes)] /\ args2 \in [1 .. j -> Edges(Nodes)]
      /\ Right(w, op, args) /\ Same(op, args, op2, args2)
  BY <1>2, <1>3, <1>4, <1>5
<1>7. Right(w, op2, args2)
  BY <1>4, <1>6, SameRight
<1> QED BY <1>5, <1>7

\* A task in pc with the result w.
Ended(x, pc, w) == [x EXCEPT !.pc = pc, !.h = w, !.t = NoEdge, !.e = NoEdge]

LEMMA EndedTask ==
  ASSUME NEW D, IsDiagram(D), NEW x, TaskOK(x, D), NEW w \in Edges(D), NEW pc \in {"add", "ok"},
         Right(w, x.op, x.args),
         NEW y, y = Ended(x, pc, w), NEW id
  PROVE  TaskOK(y, D) /\ y.call = x.call /\ Part(id, y) = {<<id, "h", w>>}
<1>0. Fields(x) /\ Faithful(x)
  BY DEF TaskOK
<1>1. /\ y = [call |-> y.call, op |-> y.op, args |-> y.args, sequential |-> y.sequential,
              depth |-> y.depth, pc |-> y.pc, t |-> y.t, e |-> y.e, h |-> y.h]
      /\ y.call = x.call /\ y.op = x.op /\ y.args = x.args /\ y.sequential = x.sequential
      /\ y.depth = x.depth /\ y.pc = pc /\ y.h = w /\ y.t = NoEdge /\ y.e = NoEdge
  BY <1>0 DEF Fields, Ended
<1>2. Fields(y)
  BY <1>0, <1>1 DEF Fields
<1>3. Holds(y, D)
  BY <1>1 DEF Holds
<1>4. Right(w, x.call[1], x.call[2])
  BY <1>0, RightForCall
<1>5. Faithful(y)
  BY <1>0, <1>1, <1>4 DEF Faithful
<1>6. Part(id, y) = {<<id, "h", w>>}
  BY <1>1, <1>3, PartFacts
<1> QED BY <1>1, <1>2, <1>3, <1>5, <1>6 DEF TaskOK

\* A task that starts ends with a cloned edge.
LEMMA StartedTaskEnds ==
  ASSUME IInv, NEW id \in Ids, task[id].pc = "start", NEW w \in Edges(DOMAIN rc),
         Right(w, task[id].op, task[id].args)
  PROVE  Good(retain(rc, w), cache, gcRunning, [task EXCEPT ![id] = Ends(id, w)])
<1> id \in DOMAIN task
  BY DEF Ids
<1>1. PICK x, y : x = task[id] /\ y = Ends(id, w)
  OBVIOUS
<1>2. TaskOK(x, DOMAIN rc) /\ IsDiagram(DOMAIN rc)
  BY <1>1, GoodFacts
<1>3. TaskOK(y, DOMAIN rc) /\ y.call = x.call /\ Part(id, y) = {<<id, "h", w>>}
  <2>1. y = Ended(x, "ok", w)
    BY <1>1 DEF Ends, Ended
  <2>2. Right(w, x.op, x.args)
    BY <1>1
  <2> QED BY <1>2, <2>1, <2>2, EndedTask
<1>4. Part(id, x) = {}
  BY <1>1, <1>2, PartFacts DEF TaskOK
<1>5. PICK g : g = <<id, "h", w>>
  OBVIOUS
<1>6. g \notin Graph(task) /\ g[3] = w
  <2>1. g[1] = id /\ g[3] = w
    BY <1>5
  <2> QED BY <1>1, <1>4, <2>1, HeldFacts, GoodFacts
<1>7. PICK Q : Q = retain(rc, w)
  OBVIOUS
<1>8. Exact(Q, Graph(task) \cup {g}) /\ DOMAIN Q = DOMAIN rc
  BY <1>6, <1>7, ExactRetain, GoodFacts
<1>9. Exact(Q, (Graph(task) \ Part(id, task[id])) \cup Part(id, y))
  <2>1. (Graph(task) \ Part(id, task[id])) \cup Part(id, y) = Graph(task) \cup {g}
    BY <1>1, <1>3, <1>4, <1>5
  <2> QED BY <1>8, <2>1
<1>10. Good(Q, cache, gcRunning, [task EXCEPT ![id] = y])
  <2>1. Good(rc, cache, gcRunning, task)
    BY DEF IInv
  <2>2. TaskOK(y, DOMAIN Q) /\ y.call = task[id].call
    BY <1>1, <1>3, <1>8
  <2>3. TableOK(DOMAIN Q) /\ CacheOK(cache, DOMAIN Q, gcRunning) /\ DOMAIN rc \subseteq DOMAIN Q
    BY <1>8, GoodFacts
  <2> QED BY <1>9, <2>1, <2>2, <2>3, OneTaskChanges
<1> QED BY <1>1, <1>7, <1>10

\* The first component tells which outcome a terminal case has.
LEMMA OutcomeKinds ==
  ASSUME NEW c, NEW op, NEW args, NEW D, Outcome(c, op, args, D)
  PROVE  /\ c[1] = "Done" => c[2] \in Edges(D) /\ Right(c[2], op, args)
         /\ c[1] = "Not" => c[2] \in Edges(D) /\ Same("not", <<c[2]>>, op, args)
         /\ c[1] = "Apply" => /\ c[2] \in Binaries /\ c[3] \in Edges(D) /\ c[4] \in Edges(D)
                              /\ Same(c[2], <<c[3], c[4]>>, op, args)
         /\ c[1] \in {"Binary", "Ternary"} => LevelOf(args) < NumVars
<1>1. ASSUME NEW x \in Edges(D), c = Done(x) PROVE c[1] = "Done" /\ c[2] = x
  BY <1>1 DEF Done
<1>2. ASSUME NEW x \in Edges(D), c = Not(x) PROVE c[1] = "Not" /\ c[2] = x
  BY <1>2 DEF Not
<1>3. ASSUME NEW o \in Binaries, NEW x \in Edges(D), NEW y \in Edges(D), c = Apply(o, x, y)
      PROVE  c[1] = "Apply" /\ c[2] = o /\ c[3] = x /\ c[4] = y
  BY <1>3 DEF Apply
<1>4. ASSUME c \in {Binary, Ternary} PROVE c[1] \in {"Binary", "Ternary"}
  BY <1>4 DEF Binary, Ternary
<1>5. CASE \E x \in Edges(D) : c = Done(x) /\ Right(x, op, args)
  BY <1>1, <1>5
<1>6. CASE \E x \in Edges(D) : c = Not(x) /\ Same("not", <<x>>, op, args)
  BY <1>2, <1>6
<1>7. CASE \E o \in Binaries : \E x \in Edges(D), y \in Edges(D) :
             c = Apply(o, x, y) /\ Same(o, <<x, y>>, op, args)
  BY <1>3, <1>7
<1>8. CASE c \in {Binary, Ternary} /\ LevelOf(args) < NumVars
  BY <1>4, <1>8
<1> QED BY <1>5, <1>6, <1>7, <1>8, Zenon DEF Outcome

\* TerminalCase keeps the invariant.
LEMMA TerminalCaseKeeps ==
  ASSUME IInv, NEW id \in Ids, TerminalCase(id)
  PROVE  IInv'
<1>1. PICK x, c : x = task[id] /\ c = terminal_case(x.op, x.args)
  OBVIOUS
<1>2. /\ x.pc = "start" /\ c[1] = "Done" /\ rc' = retain(rc, c[2])
      /\ task' = [task EXCEPT ![id] = Ends(id, c[2])] /\ cache' = cache /\ gcRunning' = gcRunning
  BY <1>1 DEF TerminalCase, At
<1>3. IsCall(x.op, x.args) /\ id \in DOMAIN task
  BY <1>1, GoodFacts DEF Ids, TaskOK, Fields
<1>4. Outcome(c, x.op, x.args, Nodes)
  BY <1>1, <1>3, CallFacts, TerminalCaseOutcome
<1>5. c[2] \in Edges(Nodes) /\ Right(c[2], x.op, x.args)
  BY <1>2, <1>4, OutcomeKinds
<1>6. PICK w \in Edges(DOMAIN rc) : w = c[2]
  BY <1>5, GoodFacts
<1>7. Good(retain(rc, w), cache, gcRunning, [task EXCEPT ![id] = Ends(id, w)])
  BY <1>1, <1>2, <1>5, <1>6, StartedTaskEnds
<1> QED BY <1>2, <1>6, <1>7 DEF IInv

\* CacheHit keeps the invariant.
LEMMA CacheHitKeeps ==
  ASSUME IInv, NEW id \in Ids, CacheHit(id)
  PROVE  IInv'
<1>1. PICK x, key : x = task[id] /\ key = Key(x.op, x.args)
  OBVIOUS
<1>2. /\ x.pc = "start" /\ key \in DOMAIN cache /\ rc' = retain(rc, cache[key])
      /\ task' = [task EXCEPT ![id] = Ends(id, cache[key])] /\ cache' = cache /\ gcRunning' = gcRunning
  BY <1>1 DEF CacheHit, Recurses, At
<1>3. IsCall(x.op, x.args) /\ id \in DOMAIN task
  BY <1>1, GoodFacts DEF Ids, TaskOK, Fields
<1>4. PICK w : w = cache[key]
  OBVIOUS
<1>5. w \in Edges(DOMAIN rc) /\ Right(w, x.op, x.args)
  BY <1>1, <1>2, <1>3, <1>4, GoodFacts DEF CacheOK
<1>6. Good(retain(rc, w), cache, gcRunning, [task EXCEPT ![id] = Ends(id, w)])
  BY <1>1, <1>2, <1>5, StartedTaskEnds
<1> QED BY <1>2, <1>4, <1>6 DEF IInv

\* A call has the same result as itself.
LEMMA SameItself ==
  ASSUME NEW op, NEW args, IsCall(op, args)
  PROVE  Same(op, args, op, args)
<1>1. PICK k \in {1, 2, 3} : args \in [1 .. k -> Edges(Nodes)] /\ IsDiagram(Nodes)
  BY CallFacts
<1> QED BY <1>1, SameReflexive

\* Same is transitive for calls.
LEMMA SameCalls ==
  ASSUME NEW op, NEW args, IsCall(op, args), NEW op2, NEW args2, IsCall(op2, args2),
         NEW op3, NEW args3, IsCall(op3, args3), Same(op, args, op2, args2), Same(op2, args2, op3, args3)
  PROVE  Same(op, args, op3, args3)
<1>1. ASSUME NEW o, NEW f, IsCall(o, f) PROVE LevelOf(f) \in Int
  <2>1. PICK k \in {1, 2, 3} : f \in [1 .. k -> Edges(Nodes)] /\ IsDiagram(Nodes)
    BY <1>1, CallFacts
  <2>2. LevelOf(f) \in 0 .. NumVars
    BY <2>1, LevelOfFacts, Zenon
  <2>3. NumVars \in Nat
    BY ParallelAssumption
  <2> QED BY <2>2, <2>3
<1>2. PICK a, b, c : a = LevelOf(args) /\ b = LevelOf(args2) /\ c = LevelOf(args3)
  OBVIOUS
<1>3. a \in Int /\ b \in Int /\ c \in Int
  BY <1>1, <1>2
<1>4. a >= b /\ b >= c
  BY <1>2 DEF Same
<1>5. a >= c
  BY <1>3, <1>4
<1>6. LevelOf(args) >= LevelOf(args3)
  BY <1>2, <1>5
<1> QED BY <1>6, Zenon DEF Same

\* A task that starts is right.
LEMMA NewTaskOK ==
  ASSUME NEW op, NEW args, IsCall(op, args), NEW sequential \in BOOLEAN, NEW depth \in 0 .. MaxDepth,
         NEW D, NEW x, x = NewTask(op, args, sequential, depth)
  PROVE  TaskOK(x, D) /\ x.pc = "start" /\ x.call = <<op, args>>
<1>1. /\ x = [call |-> x.call, op |-> x.op, args |-> x.args, sequential |-> x.sequential,
              depth |-> x.depth, pc |-> x.pc, t |-> x.t, e |-> x.e, h |-> x.h]
      /\ x.call = <<op, args>> /\ x.op = op /\ x.args = args /\ x.sequential = sequential
      /\ x.depth = depth /\ x.pc = "start" /\ x.h = NoEdge /\ x.t = NoEdge /\ x.e = NoEdge
  BY DEF NewTask
<1>2. x.call[1] = op /\ x.call[2] = args
  BY <1>1
<1>3. Fields(x)
  BY <1>1, <1>2 DEF Fields
<1>4. Holds(x, D)
  BY <1>1 DEF Holds
<1>5. Faithful(x)
  BY <1>1, <1>2, SameItself DEF Faithful
<1> QED BY <1>1, <1>3, <1>4, <1>5 DEF TaskOK

\* The recursive calls are calls.
LEMMA CofactorsCall ==
  ASSUME NEW op, NEW args, IsCall(op, args), LevelOf(args) < NumVars, NEW i \in {1, 2}
  PROVE  IsCall(op, Cofactors(args, i))
<1>1. PICK k \in {1, 2, 3} : /\ Operands(op, Edges(Nodes)) = [1 .. k -> Edges(Nodes)] /\ IsDiagram(Nodes)
                             /\ args \in [1 .. k -> Edges(Nodes)]
  BY CallFacts
<1>2. Recursive(Nodes, k, args)
  BY <1>1 DEF Recursive
<1>3. Cofactors(args, i) \in [1 .. k -> Edges(Nodes)]
  BY <1>2, CofactorsFacts
<1> QED BY <1>1, <1>3 DEF IsCall

\* should_switch_to_sequential changes only the recursor.
LEMMA SwitchedFacts ==
  ASSUME NEW D, NEW x, TaskOK(x, D), NEW z, z = Switched(x)
  PROVE  /\ TaskOK(z, D) /\ z.call = x.call /\ z.op = x.op /\ z.args = x.args /\ z.pc = x.pc
         /\ z.sequential \in BOOLEAN /\ (IF z.sequential THEN z.depth ELSE z.depth - 1) \in 0 .. MaxDepth
<1>0. Fields(x) /\ Holds(x, D) /\ Faithful(x)
  BY DEF TaskOK
<1>1. /\ z = [call |-> z.call, op |-> z.op, args |-> z.args, sequential |-> z.sequential,
              depth |-> z.depth, pc |-> z.pc, t |-> z.t, e |-> z.e, h |-> z.h]
      /\ z.call = x.call /\ z.op = x.op /\ z.args = x.args
      /\ z.sequential = (IF x.depth = 0 THEN TRUE ELSE x.sequential)
      /\ z.depth = x.depth /\ z.pc = x.pc /\ z.h = x.h /\ z.t = x.t /\ z.e = x.e
  <2>1. CASE x.depth = 0
    <3>1. z = [x EXCEPT !.sequential = TRUE]
      BY <2>1 DEF Switched
    <3> QED BY <1>0, <2>1, <3>1 DEF Fields
  <2>2. CASE x.depth # 0
    <3>1. z = x
      BY <2>2 DEF Switched
    <3> QED BY <1>0, <2>2, <3>1 DEF Fields
  <2> QED BY <2>1, <2>2
<1>2. z.sequential \in BOOLEAN /\ x.depth \in 0 .. MaxDepth
  <2>1. x.sequential \in BOOLEAN /\ x.depth \in 0 .. MaxDepth
    BY <1>0 DEF Fields
  <2> QED BY <1>1, <2>1
<1>3. Fields(z)
  BY <1>0, <1>1, <1>2 DEF Fields
<1>4. Holds(z, D)
  BY <1>0, <1>1 DEF Holds
<1>5. Faithful(z)
  BY <1>0, <1>1 DEF Faithful
<1>6. (IF z.sequential THEN z.depth ELSE z.depth - 1) \in 0 .. MaxDepth
  <2>1. MaxDepth \in Nat
    BY ParallelAssumption
  <2>2. CASE x.depth = 0
    <3>1. z.sequential = TRUE
      BY <1>1, <2>2
    <3> QED BY <1>1, <1>2, <3>1
  <2>3. CASE x.depth # 0
    <3>1. x.depth - 1 \in 0 .. MaxDepth
      BY <1>2, <2>1, <2>3
    <3> QED BY <1>1, <1>2, <3>1
  <2> QED BY <2>2, <2>3
<1> QED BY <1>1, <1>2, <1>3, <1>4, <1>5, <1>6 DEF TaskOK

\* A task goes on without a change of what it holds.
LEMMA QuietStep ==
  ASSUME IInv, NEW id \in Ids, task[id].pc \notin {"then", "else", "join"},
         NEW y, y.call = task[id].call, TaskOK(y, DOMAIN rc), Part(id, y) = Part(id, task[id]),
         NEW K, CacheOK(K, DOMAIN rc, gcRunning)
  PROVE  Good(rc, K, gcRunning, [task EXCEPT ![id] = y])
<1>1. Part(id, task[id]) \subseteq Graph(task) /\ id \in DOMAIN task
  BY DEF Graph, Ids
<1>2. (Graph(task) \ Part(id, task[id])) \cup Part(id, y) = Graph(task)
  BY <1>1
<1>3. /\ Good(rc, cache, gcRunning, task) /\ TableOK(DOMAIN rc)
      /\ Exact(rc, (Graph(task) \ Part(id, task[id])) \cup Part(id, y))
  BY <1>2, GoodFacts DEF IInv
<1> QED BY <1>1, <1>3, OneTaskChanges

\* Delegate keeps the invariant.
LEMMA DelegateKeeps ==
  ASSUME IInv, NEW id \in Ids, Delegate(id)
  PROVE  IInv'
<1>1. PICK x, z, c : x = task[id] /\ z = Switched(x) /\ c = terminal_case(z.op, z.args)
  OBVIOUS
<1>2. PICK y : y = IF c[1] = "Not" THEN [z EXCEPT !.op = "not", !.args = <<c[2]>>]
                   ELSE [z EXCEPT !.op = c[2], !.args = <<c[3], c[4]>>]
  OBVIOUS
<1>3. /\ x.pc = "start" /\ c[1] \in {"Not", "Apply"} /\ task' = [task EXCEPT ![id] = y]
      /\ rc' = rc /\ cache' = cache /\ gcRunning' = gcRunning
  BY <1>1, <1>2 DEF Delegate, At
<1>4. TaskOK(x, DOMAIN rc) /\ IsDiagram(DOMAIN rc)
  BY <1>1, GoodFacts DEF Ids
<1>5. TaskOK(z, DOMAIN rc) /\ z.call = x.call /\ z.pc = "start"
  BY <1>1, <1>3, <1>4, SwitchedFacts
<1>6. Fields(z) /\ Holds(z, DOMAIN rc) /\ Faithful(z)
  BY <1>5 DEF TaskOK
<1>7. IsCall(z.op, z.args) /\ IsCall(z.call[1], z.call[2])
  BY <1>6 DEF Fields
<1>8. Outcome(c, z.op, z.args, Nodes)
  BY <1>1, <1>7, CallFacts, TerminalCaseOutcome
<1>9. /\ y = [call |-> y.call, op |-> y.op, args |-> y.args, sequential |-> y.sequential,
              depth |-> y.depth, pc |-> y.pc, t |-> y.t, e |-> y.e, h |-> y.h]
      /\ y.call = z.call /\ y.sequential = z.sequential
      /\ y.depth = z.depth /\ y.pc = z.pc /\ y.h = z.h /\ y.t = z.t /\ y.e = z.e
      /\ y.op = (IF c[1] = "Not" THEN "not" ELSE c[2])
      /\ y.args = (IF c[1] = "Not" THEN <<c[2]>> ELSE <<c[3], c[4]>>)
  BY <1>2, <1>6 DEF Fields
<1>10. IsCall(y.op, y.args) /\ Same(y.op, y.args, z.op, z.args)
  <2>1. CASE c[1] = "Not"
    <3>1. c[2] \in Edges(Nodes) /\ Same("not", <<c[2]>>, z.op, z.args)
      BY <1>8, <2>1, OutcomeKinds
    <3>2. "not" \in Operators
      BY DEF Operators
    <3>3. <<c[2]>> \in [1 .. 1 -> Edges(Nodes)]
      BY <3>1
    <3>4. IsCall("not", <<c[2]>>)
      BY <3>2, <3>3, OperandsFacts DEF IsCall
    <3> QED BY <1>9, <2>1, <3>1, <3>4
  <2>2. CASE c[1] = "Apply"
    <3>1. /\ c[2] \in Binaries /\ c[3] \in Edges(Nodes) /\ c[4] \in Edges(Nodes)
          /\ Same(c[2], <<c[3], c[4]>>, z.op, z.args)
      BY <1>8, <2>2, OutcomeKinds
    <3>2. c[2] \in Operators
      BY <3>1 DEF Operators
    <3>3. <<c[3], c[4]>> \in [1 .. 2 -> Edges(Nodes)]
      BY <3>1
    <3>4. IsCall(c[2], <<c[3], c[4]>>)
      BY <3>1, <3>2, <3>3, OperandsFacts DEF IsCall
    <3> QED BY <1>9, <2>2, <3>1, <3>4
  <2> QED BY <1>3, <2>1, <2>2
<1>11. Fields(y)
  BY <1>6, <1>9, <1>10 DEF Fields
<1>12. Holds(y, DOMAIN rc)
  BY <1>6, <1>9 DEF Holds
<1>13. Faithful(y)
  <2>1. Same(z.op, z.args, z.call[1], z.call[2])
    BY <1>6 DEF Faithful
  <2>2. Same(y.op, y.args, z.call[1], z.call[2])
    BY <1>7, <1>10, <2>1, SameCalls
  <2>3. y.pc = "start"
    BY <1>5, <1>9
  <2> QED BY <1>9, <2>2, <2>3 DEF Faithful
<1>14. Part(id, y) = Part(id, task[id])
  <2>1. Part(id, y) = {} /\ Part(id, x) = {}
    BY <1>3, <1>4, <1>5, <1>9, <1>12, PartFacts DEF TaskOK
  <2> QED BY <1>1, <2>1
<1>15. Good(rc, cache, gcRunning, [task EXCEPT ![id] = y])
  <2>1. TaskOK(y, DOMAIN rc) /\ y.call = task[id].call /\ task[id].pc \notin {"then", "else", "join"}
    BY <1>1, <1>3, <1>5, <1>9, <1>11, <1>12, <1>13 DEF TaskOK
  <2> QED BY <1>14, <2>1, QuietStep, GoodFacts
<1> QED BY <1>3, <1>15 DEF IInv

\* The recursive calls fit their task.
LEMMA ChildFits ==
  ASSUME NEW T, NEW id \in Idents, id \in DOMAIN T
  PROVE  /\ T[id].pc \in {"then", "join"} =>
              Fits(T, First(id), <<T[id].op, Cofactors(T[id].args, 1)>>)
         /\ T[id].pc \in {"else", "join"} =>
              Fits(T, Second(id), <<T[id].op, Cofactors(T[id].args, 2)>>)
<1>1. ASSUME NEW p \in Idents PROVE (First(p) = First(id) => p = id) /\ Second(p) # First(id)
  BY IdentFacts
<1>2. ASSUME NEW p \in Idents PROVE (Second(p) = Second(id) => p = id) /\ First(p) # Second(id)
  BY IdentFacts
<1> QED BY <1>1, <1>2 DEF Fits

\* The children of a task are not the task.
LEMMA ChildrenDiffer ==
  ASSUME NEW id \in Idents
  PROVE  First(id) # id /\ Second(id) # id /\ First(id) # Second(id)
<1>1. PICK k \in Nat : k = Len(id) /\ Len(First(id)) = k + 1 /\ Len(Second(id)) = k + 1
  BY IdentFacts
<1>2. Len(id) # Len(First(id)) /\ Len(id) # Len(Second(id))
  BY <1>1
<1> QED BY <1>2, IdentFacts

\* Recurse keeps the invariant.
LEMMA RecurseKeeps ==
  ASSUME IInv, NEW id \in Ids, Recurse(id)
  PROVE  IInv'
<1>1. PICK x, z, depth : /\ x = task[id] /\ z = Switched(x)
                         /\ depth = IF z.sequential THEN z.depth ELSE z.depth - 1
  OBVIOUS
<1>2. PICK y, a, b : /\ y = [z EXCEPT !.pc = IF z.sequential THEN "then" ELSE "join"]
                     /\ a = NewTask(z.op, Cofactors(z.args, 1), z.sequential, depth)
                     /\ b = NewTask(z.op, Cofactors(z.args, 2), z.sequential, depth)
  OBVIOUS
<1>3. PICK U : U = [task EXCEPT ![id] = y]
  OBVIOUS
<1>4. /\ x.pc = "start" /\ terminal_case(x.op, x.args)[1] \in {"Binary", "Ternary"}
      /\ task' = (IF z.sequential THEN Extend(U, First(id), a)
                  ELSE Extend(Extend(U, First(id), a), Second(id), b))
      /\ rc' = rc /\ cache' = cache /\ gcRunning' = gcRunning
  <2>1. x.pc = "start" /\ terminal_case(x.op, x.args)[1] \in {"Binary", "Ternary"}
    BY <1>1 DEF Recurse, Recurses, At
  <2>2. rc' = rc /\ cache' = cache /\ gcRunning' = gcRunning
    BY DEF Recurse
  <2>3. task' = (IF z.sequential THEN Extend(U, First(id), a)
                 ELSE Extend(Extend(U, First(id), a), Second(id), b))
    BY <1>1, <1>2, <1>3 DEF Recurse
  <2> QED BY <2>1, <2>2, <2>3
<1>5. TaskOK(x, DOMAIN rc) /\ IsDiagram(DOMAIN rc) /\ id \in DOMAIN task /\ Tree(task)
  BY <1>1, GoodFacts DEF Ids
<1>6. /\ TaskOK(z, DOMAIN rc) /\ z.call = x.call /\ z.op = x.op /\ z.args = x.args /\ z.pc = "start"
      /\ z.sequential \in BOOLEAN /\ depth \in 0 .. MaxDepth
  BY <1>1, <1>4, <1>5, SwitchedFacts
<1>7. Fields(z) /\ Holds(z, DOMAIN rc) /\ Faithful(z)
  BY <1>6 DEF TaskOK
<1>8. IsCall(z.op, z.args) /\ LevelOf(z.args) < NumVars
  <2>1. IsCall(z.op, z.args)
    BY <1>7 DEF Fields
  <2>2. Outcome(terminal_case(z.op, z.args), z.op, z.args, Nodes)
    BY <2>1, CallFacts, TerminalCaseOutcome
  <2> QED BY <1>4, <1>6, <2>1, <2>2, OutcomeKinds
<1>9. /\ y = [call |-> y.call, op |-> y.op, args |-> y.args, sequential |-> y.sequential,
              depth |-> y.depth, pc |-> y.pc, t |-> y.t, e |-> y.e, h |-> y.h]
      /\ y.call = z.call /\ y.op = z.op /\ y.args = z.args /\ y.sequential = z.sequential
      /\ y.depth = z.depth /\ y.h = z.h /\ y.t = z.t /\ y.e = z.e
      /\ y.pc = IF z.sequential THEN "then" ELSE "join"
  BY <1>2, <1>7 DEF Fields
<1>10. TaskOK(y, DOMAIN rc)
  <2>1. Fields(y)
    BY <1>7, <1>9 DEF Fields
  <2>2. Holds(y, DOMAIN rc)
    BY <1>6, <1>7, <1>9 DEF Holds
  <2>3. Faithful(y)
    BY <1>7, <1>8, <1>9 DEF Faithful
  <2> QED BY <2>1, <2>2, <2>3 DEF TaskOK
<1>11. Good(rc, cache, gcRunning, U)
  <2>1. Part(id, y) = {} /\ Part(id, x) = {}
    BY <1>4, <1>5, <1>9, <1>10, PartFacts DEF TaskOK
  <2>2. /\ y.call = task[id].call /\ task[id].pc \notin {"then", "else", "join"}
        /\ Part(id, y) = Part(id, task[id])
    BY <1>1, <1>4, <1>6, <1>9, <2>1
  <2>3. CacheOK(cache, DOMAIN rc, gcRunning)
    BY GoodFacts
  <2> QED BY <1>3, <1>10, <2>2, <2>3, QuietStep
<1>12. /\ id \in Idents /\ First(id) \in Idents /\ Second(id) \in Idents
       /\ First(id) # Second(id) /\ First(id) # id /\ Second(id) # id
       /\ First(id) \notin DOMAIN task /\ Second(id) \notin DOMAIN task
  BY <1>1, <1>4, <1>5, NoChildren, IdentFacts, ChildrenDiffer
<1>13. DOMAIN U = DOMAIN task /\ U[id] = y
  <2>1. task = [j \in DOMAIN task |-> task[j]]
    BY <1>5 DEF Tree
  <2> QED BY <1>3, <1>5, <2>1
<1>14. TaskOK(a, DOMAIN rc) /\ a.pc = "start" /\ a.call = <<y.op, Cofactors(y.args, 1)>>
  <2>1. IsCall(z.op, Cofactors(z.args, 1))
    BY <1>8, CofactorsCall
  <2> QED BY <1>2, <1>6, <1>9, <2>1, NewTaskOK
<1>15. TaskOK(b, DOMAIN rc) /\ b.pc = "start" /\ b.call = <<y.op, Cofactors(y.args, 2)>>
  <2>1. IsCall(z.op, Cofactors(z.args, 2))
    BY <1>8, CofactorsCall
  <2> QED BY <1>2, <1>6, <1>9, <2>1, NewTaskOK
<1>16. PICK V : V = Extend(U, First(id), a)
  OBVIOUS
<1>17. Good(rc, cache, gcRunning, V)
  <2>1. U[id].pc \in {"then", "join"}
    BY <1>9, <1>13
  <2>2. Fits(U, First(id), <<U[id].op, Cofactors(U[id].args, 1)>>)
    BY <1>5, <1>12, <1>13, <2>1, ChildFits
  <2>3. Fits(U, First(id), a.call)
    BY <1>13, <1>14, <2>2
  <2>4. First(id) \notin DOMAIN U
    BY <1>12, <1>13
  <2> QED BY <1>11, <1>12, <1>14, <1>16, <2>3, <2>4, TaskStarts
<1>18. CASE z.sequential
  BY <1>4, <1>16, <1>17, <1>18 DEF IInv
<1>19. CASE ~z.sequential
  <2>1. DOMAIN V = DOMAIN U \cup {First(id)} /\ V[id] = U[id]
    BY <1>5, <1>12, <1>13, <1>16 DEF Extend
  <2>2. V[id].pc \in {"else", "join"} /\ id \in DOMAIN V
    BY <1>5, <1>9, <1>13, <1>19, <2>1
  <2>3. Fits(V, Second(id), <<V[id].op, Cofactors(V[id].args, 2)>>)
    BY <1>12, <2>2, ChildFits
  <2>4. Fits(V, Second(id), b.call)
    BY <1>13, <1>15, <2>1, <2>3
  <2>5. Second(id) \notin DOMAIN V
    BY <1>12, <1>13, <2>1
  <2>6. Good(rc, cache, gcRunning, Extend(V, Second(id), b))
    BY <1>12, <1>15, <1>17, <2>4, <2>5, TaskStarts
  <2> QED BY <1>4, <1>16, <1>19, <2>6 DEF IInv
<1> QED BY <1>18, <1>19

\* A waiting task with the result t of its first call, and maybe e of its second one.
Collected(x, pc, t, e) == [x EXCEPT !.pc = pc, !.t = t, !.e = e]

LEMMA CollectedTask ==
  ASSUME NEW D, IsDiagram(D), NEW x, TaskOK(x, D), x.pc \in {"then", "else", "join"},
         NEW pc \in {"else", "reduce"}, NEW t \in Edges(D), Right(t, x.op, Cofactors(x.args, 1)),
         NEW e, pc = "else" => e = NoEdge,
         pc = "reduce" => e \in Edges(D) /\ Right(e, x.op, Cofactors(x.args, 2)),
         NEW y, y = Collected(x, pc, t, e), NEW id
  PROVE  /\ TaskOK(y, D) /\ y.call = x.call /\ y.op = x.op /\ y.args = x.args /\ y.pc = pc
         /\ Part(id, y) = IF pc = "else" THEN {<<id, "t", t>>} ELSE {<<id, "t", t>>, <<id, "e", e>>}
<1>0. Fields(x) /\ Faithful(x) /\ Holds(x, D)
  BY DEF TaskOK
<1>1. /\ y = [call |-> y.call, op |-> y.op, args |-> y.args, sequential |-> y.sequential,
              depth |-> y.depth, pc |-> y.pc, t |-> y.t, e |-> y.e, h |-> y.h]
      /\ y.call = x.call /\ y.op = x.op /\ y.args = x.args /\ y.sequential = x.sequential
      /\ y.depth = x.depth /\ y.pc = pc /\ y.h = x.h /\ y.t = t /\ y.e = e
  BY <1>0 DEF Fields, Collected
<1>2. Fields(y)
  BY <1>0, <1>1 DEF Fields
<1>3. Holds(y, D)
  <2>1. y.h = NoEdge
    BY <1>0, <1>1 DEF Holds
  <2> QED BY <1>1, <2>1 DEF Holds
<1>4. Faithful(y)
  BY <1>0, <1>1 DEF Faithful
<1>5. pc = "else" => Part(id, y) = {<<id, "t", t>>}
  BY <1>1, <1>3, PartFacts
<1>6. pc = "reduce" => Part(id, y) = {<<id, "t", t>>, <<id, "e", e>>}
  BY <1>1, <1>3, PartFacts
<1> QED BY <1>1, <1>2, <1>3, <1>4, <1>5, <1>6 DEF TaskOK

\* A task that fails.
Failed(x) == [x EXCEPT !.pc = "err", !.t = NoEdge, !.e = NoEdge]

LEMMA FailedTask ==
  ASSUME NEW D, IsDiagram(D), NEW x, TaskOK(x, D), x.pc \notin {"add", "ok"}, NEW y, y = Failed(x), NEW id
  PROVE  TaskOK(y, D) /\ y.call = x.call /\ Part(id, y) = {}
<1>0. Fields(x) /\ Faithful(x) /\ Holds(x, D)
  BY DEF TaskOK
<1>1. /\ y = [call |-> y.call, op |-> y.op, args |-> y.args, sequential |-> y.sequential,
              depth |-> y.depth, pc |-> y.pc, t |-> y.t, e |-> y.e, h |-> y.h]
      /\ y.call = x.call /\ y.op = x.op /\ y.args = x.args /\ y.sequential = x.sequential
      /\ y.depth = x.depth /\ y.pc = "err" /\ y.h = x.h /\ y.t = NoEdge /\ y.e = NoEdge
  BY <1>0 DEF Fields, Failed
<1>2. Fields(y)
  BY <1>0, <1>1 DEF Fields
<1>3. Holds(y, D)
  <2>1. y.h = NoEdge
    BY <1>0, <1>1 DEF Holds
  <2> QED BY <1>1, <2>1 DEF Holds
<1>4. Faithful(y)
  BY <1>0, <1>1 DEF Faithful
<1>5. Part(id, y) = {}
  BY <1>1, <1>3, PartFacts
<1> QED BY <1>1, <1>2, <1>3, <1>4, <1>5 DEF TaskOK

\* What a recursive call c of a task has returned.
LEMMA ReturnedTask ==
  ASSUME NEW D, IsDiagram(D), NEW r, TaskOK(r, D), NEW op, NEW args, r.call = <<op, args>>, NEW c
  PROVE  /\ r.pc = "ok" => /\ r.h \in Edges(D) /\ Right(r.h, op, args)
                           /\ Part(c, r) = {<<c, "h", r.h>>}
         /\ r.pc = "err" => r.h = NoEdge /\ Part(c, r) = {}
<1>0. Fields(r) /\ Faithful(r) /\ Holds(r, D)
  BY DEF TaskOK
<1>1. r.call[1] = op /\ r.call[2] = args
  OBVIOUS
<1>2. ASSUME r.pc = "ok" PROVE /\ r.h \in Edges(D) /\ Right(r.h, op, args)
                               /\ Part(c, r) = {<<c, "h", r.h>>}
  <2>1. r.h \in Edges(D)
    BY <1>0, <1>2 DEF Holds
  <2>2. Right(r.h, op, args)
    BY <1>0, <1>1, <1>2 DEF Faithful
  <2> QED BY <1>0, <1>2, <2>1, <2>2, PartFacts
<1>3. ASSUME r.pc = "err" PROVE r.h = NoEdge /\ Part(c, r) = {}
  <2>1. r.h = NoEdge
    BY <1>0, <1>3 DEF Holds
  <2> QED BY <1>0, <1>3, <2>1, PartFacts
<1> QED BY <1>2, <1>3

\* ThenReturns keeps the invariant.
LEMMA ThenReturnsKeeps ==
  ASSUME IInv, NEW id \in Ids, ThenReturns(id)
  PROVE  IInv'
<1>1. PICK x, c, r : x = task[id] /\ c = First(id) /\ r = task[c]
  OBVIOUS
<1>2. PICK b : b = NewTask(x.op, Cofactors(x.args, 2), TRUE, x.depth)
  OBVIOUS
<1>3. PICK w : w = [x EXCEPT !.pc = "else", !.t = r.h]
  OBVIOUS
<1>4. /\ x.pc = "then" /\ c \in DOMAIN task /\ r.pc \in {"ok", "err"}
      /\ r.pc = "err" => task' = Removed([task EXCEPT ![id] = Fails(id)], {c})
      /\ r.pc # "err" => task' = Removed(Extend([task EXCEPT ![id] = w], Second(id), b), {c})
      /\ rc' = rc /\ cache' = cache /\ gcRunning' = gcRunning
  <2>1. x.pc = "then" /\ c \in DOMAIN task /\ r.pc \in {"ok", "err"}
    BY <1>1 DEF ThenReturns, At, IsDone, Ids
  <2>2. rc' = rc /\ cache' = cache /\ gcRunning' = gcRunning
    BY DEF ThenReturns
  <2>3. r.pc = "err" => task' = Removed([task EXCEPT ![id] = Fails(id)], {c})
    BY <1>1 DEF ThenReturns
  <2>4. r.pc # "err" => task' = Removed(Extend([task EXCEPT ![id] = w], Second(id), b), {c})
    BY <1>1, <1>2, <1>3 DEF ThenReturns
  <2> QED BY <2>1, <2>2, <2>3, <2>4
<1>5. /\ TaskOK(x, DOMAIN rc) /\ TaskOK(r, DOMAIN rc) /\ IsDiagram(DOMAIN rc) /\ id \in DOMAIN task
      /\ Tree(task) /\ Good(rc, cache, gcRunning, task) /\ Exact(rc, Graph(task))
      /\ TasksOK(task, DOMAIN rc)
  BY <1>1, <1>4, GoodFacts DEF Ids, IInv
<1>6. /\ id \in Idents /\ c \in Idents /\ Second(id) \in Idents /\ c # id /\ Second(id) # id
      /\ c # Second(id) /\ Second(id) \notin DOMAIN task
      /\ r.call = <<x.op, Cofactors(x.args, 1)>>
  BY <1>1, <1>4, <1>5, NoChildren, IdentFacts, ChildrenDiffer
<1>7. /\ {c} \subseteq {First(id), Second(id)} /\ {First(id), Second(id)} \cap DOMAIN task = {c}
      /\ \A s \in {c} : task[s].pc \in {"ok", "err"}
  BY <1>1, <1>4, <1>6
<1>8. Part(id, x) = {} /\ Parts(task, {c}) = Part(c, r)
  <2>1. Part(id, x) = {}
    BY <1>4, <1>5, PartFacts DEF TaskOK
  <2>2. {c} \cap DOMAIN task = {c}
    BY <1>4
  <2> QED BY <1>1, <2>1, <2>2 DEF Parts
<1>9. CASE r.pc = "err"
  <2>1. PICK y : y = Fails(id)
    OBVIOUS
  <2>2. y = Failed(x)
    BY <1>1, <2>1 DEF Fails, Failed
  <2>3. TaskOK(y, DOMAIN rc) /\ y.call = x.call /\ Part(id, y) = {}
    BY <1>4, <1>5, <2>2, FailedTask
  <2>4. Part(c, r) = {}
    BY <1>5, <1>6, <1>9, ReturnedTask
  <2>5. (Graph(task) \ (Part(id, task[id]) \cup Parts(task, {c}))) \cup Part(id, y) = Graph(task)
    BY <1>1, <1>8, <2>3, <2>4
  <2>6. Good(rc, cache, gcRunning, Removed([task EXCEPT ![id] = y], {c}))
    <3>1. Exact(rc, (Graph(task) \ (Part(id, task[id]) \cup Parts(task, {c}))) \cup Part(id, y))
      BY <1>5, <2>5
    <3>2. y.call = task[id].call
      BY <1>1, <2>3
    <3> QED BY <1>5, <1>7, <2>3, <3>1, <3>2, TasksReturn
  <2> QED BY <1>4, <1>9, <2>1, <2>6 DEF IInv
<1>10. CASE r.pc = "ok"
  <2>1. PICK y : y = Collected(x, "else", r.h, NoEdge)
    OBVIOUS
  <2>2. w = y
    <3>1. Fields(x) /\ x.e = NoEdge
      BY <1>4, <1>5 DEF TaskOK, Holds
    <3> QED BY <1>3, <2>1, <3>1 DEF Fields, Collected
  <2>3. /\ r.h \in Edges(DOMAIN rc) /\ Right(r.h, x.op, Cofactors(x.args, 1))
        /\ Part(c, r) = {<<c, "h", r.h>>}
    BY <1>5, <1>6, <1>10, ReturnedTask
  <2>4. PICK t : t = r.h
    OBVIOUS
  <2>5. /\ TaskOK(y, DOMAIN rc) /\ y.call = x.call /\ y.op = x.op /\ y.args = x.args /\ y.pc = "else"
        /\ Part(id, y) = {<<id, "t", t>>}
    <3>0. PICK pc \in {"else", "reduce"} : pc = "else"
      OBVIOUS
    <3>1. PICK e : pc = "else" /\ e = NoEdge
      BY <3>0
    <3>2. t \in Edges(DOMAIN rc) /\ Right(t, x.op, Cofactors(x.args, 1)) /\ y = Collected(x, pc, t, e)
      BY <2>1, <2>3, <2>4, <3>1
    <3>3. x.pc \in {"then", "else", "join"} /\ pc # "reduce"
      BY <1>4, <3>1
    <3>4. /\ TaskOK(y, DOMAIN rc) /\ y.call = x.call /\ y.op = x.op /\ y.args = x.args /\ y.pc = pc
          /\ Part(id, y) = IF pc = "else" THEN {<<id, "t", t>>} ELSE {<<id, "t", t>>, <<id, "e", e>>}
      BY <1>5, <3>1, <3>2, <3>3, CollectedTask
    <3> QED BY <3>1, <3>4
  <2>6. PICK g, h : g = <<c, "h", t>> /\ h = <<id, "t", t>>
    OBVIOUS
  <2>7. g \in Graph(task) /\ h \notin Graph(task) /\ g[3] = t /\ h[3] = t
    <3>1. g \in Part(c, task[c])
      BY <1>1, <2>3, <2>4, <2>6
    <3>2. g \in Graph(task)
      BY <1>4, <3>1 DEF Graph
    <3>3. h[1] = id /\ h[3] = t /\ g[3] = t
      BY <2>6
    <3>4. h \notin Graph(task)
      BY <1>1, <1>5, <1>8, <3>3, HeldFacts
    <3> QED BY <3>2, <3>3, <3>4
  <2>8. Exact(rc, (Graph(task) \ {g}) \cup {h})
    BY <1>5, <2>7, ExactMove
  <2>9. (Graph(task) \ (Part(id, task[id]) \cup Parts(task, {c}))) \cup Part(id, y) = (Graph(task) \ {g}) \cup {h}
    <3>1. Part(id, task[id]) = {} /\ Parts(task, {c}) = {g} /\ Part(id, y) = {h}
      BY <1>1, <1>8, <2>3, <2>4, <2>5, <2>6
    <3> QED BY <3>1
  <2>10. PICK V : V = Removed([task EXCEPT ![id] = y], {c})
    OBVIOUS
  <2>11. Good(rc, cache, gcRunning, V)
    <3>1. Exact(rc, (Graph(task) \ (Part(id, task[id]) \cup Parts(task, {c}))) \cup Part(id, y))
      BY <2>8, <2>9
    <3>2. y.call = task[id].call
      BY <1>1, <2>5
    <3> QED BY <1>5, <1>7, <2>5, <2>10, <3>1, <3>2, TasksReturn
  <2>12. DOMAIN V = DOMAIN task \ {c} /\ V[id] = y /\ id \in DOMAIN V
    BY <1>5, <1>6, <2>10 DEF Removed
  <2>13. TaskOK(b, DOMAIN rc) /\ b.pc = "start" /\ b.call = <<y.op, Cofactors(y.args, 2)>>
    <3>1. Fields(x) /\ Faithful(x)
      BY <1>5 DEF TaskOK
    <3>2. IsCall(x.op, x.args) /\ x.depth \in 0 .. MaxDepth
      BY <3>1 DEF Fields
    <3>3. LevelOf(x.args) < NumVars
      BY <1>4, <3>1 DEF Faithful
    <3>4. IsCall(x.op, Cofactors(x.args, 2))
      BY <3>2, <3>3, CofactorsCall
    <3>5. PICK op, args : op = x.op /\ args = Cofactors(x.args, 2)
      OBVIOUS
    <3>6. PICK sequential \in BOOLEAN : sequential = TRUE
      OBVIOUS
    <3>7. PICK depth \in 0 .. MaxDepth : depth = x.depth
      BY <3>2
    <3>8. b = NewTask(op, args, sequential, depth)
      BY <1>2, <3>5, <3>6, <3>7
    <3>9. IsCall(op, args)
      BY <3>4, <3>5
    <3>10. TaskOK(b, DOMAIN rc) /\ b.pc = "start" /\ b.call = <<op, args>>
      BY <3>8, <3>9, NewTaskOK
    <3> QED BY <2>5, <3>5, <3>10
  <2>14. Fits(V, Second(id), b.call)
    <3>1. Fits(V, Second(id), <<V[id].op, Cofactors(V[id].args, 2)>>)
      BY <1>6, <2>5, <2>12, ChildFits
    <3> QED BY <2>12, <2>13, <3>1
  <2>15. Good(rc, cache, gcRunning, Extend(V, Second(id), b))
    <3>1. Second(id) \notin DOMAIN V
      BY <1>6, <2>12
    <3> QED BY <1>6, <2>11, <2>13, <2>14, <3>1, TaskStarts
  <2>16. Removed(Extend([task EXCEPT ![id] = y], Second(id), b), {c}) = Extend(V, Second(id), b)
    <3>1. PICK W, s : W = [task EXCEPT ![id] = y] /\ s = Second(id)
      OBVIOUS
    <3>2. Removed(Extend(W, s, b), {c}) = Extend(Removed(W, {c}), s, b)
      BY <1>6, <3>1 DEF Removed, Extend
    <3> QED BY <2>10, <3>1, <3>2
  <2> QED BY <1>4, <1>10, <2>2, <2>15, <2>16 DEF IInv
<1> QED BY <1>4, <1>9, <1>10

\* ElseReturns keeps the invariant.
LEMMA ElseReturnsKeeps ==
  ASSUME IInv, NEW id \in Ids, ElseReturns(id)
  PROVE  IInv'
<1>1. PICK x, c, r, t : x = task[id] /\ c = Second(id) /\ r = task[c] /\ t = x.t
  OBVIOUS
<1>2. PICK w : w = [x EXCEPT !.pc = "reduce", !.e = r.h]
  OBVIOUS
<1>3. /\ x.pc = "else" /\ c \in DOMAIN task /\ r.pc \in {"ok", "err"}
      /\ r.pc = "err" => /\ task' = Removed([task EXCEPT ![id] = Fails(id)], {c})
                         /\ rc' = release(rc, t)
      /\ r.pc # "err" => task' = Removed([task EXCEPT ![id] = w], {c}) /\ rc' = rc
      /\ cache' = cache /\ gcRunning' = gcRunning
  <2>1. x.pc = "else" /\ c \in DOMAIN task /\ r.pc \in {"ok", "err"}
    BY <1>1 DEF ElseReturns, At, IsDone, Ids
  <2>2. cache' = cache /\ gcRunning' = gcRunning
    BY DEF ElseReturns
  <2>3. r.pc = "err" => /\ task' = Removed([task EXCEPT ![id] = Fails(id)], {c})
                        /\ rc' = release(rc, t)
    BY <1>1 DEF ElseReturns
  <2>4. r.pc # "err" => task' = Removed([task EXCEPT ![id] = w], {c}) /\ rc' = rc
    BY <1>1, <1>2 DEF ElseReturns
  <2> QED BY <2>1, <2>2, <2>3, <2>4
<1>4. /\ TaskOK(x, DOMAIN rc) /\ TaskOK(r, DOMAIN rc) /\ IsDiagram(DOMAIN rc) /\ id \in DOMAIN task
      /\ Tree(task) /\ Good(rc, cache, gcRunning, task) /\ Exact(rc, Graph(task))
      /\ TasksOK(task, DOMAIN rc)
  BY <1>1, <1>3, GoodFacts DEF Ids, IInv
<1>5. /\ id \in Idents /\ c # id /\ First(id) # c /\ First(id) \notin DOMAIN task
      /\ r.call = <<x.op, Cofactors(x.args, 2)>>
  BY <1>1, <1>3, <1>4, NoChildren, IdentFacts, ChildrenDiffer
<1>6. /\ {c} \subseteq {First(id), Second(id)} /\ {First(id), Second(id)} \cap DOMAIN task = {c}
      /\ \A s \in {c} : task[s].pc \in {"ok", "err"}
  BY <1>1, <1>3, <1>5
<1>7. PICK k : k = <<id, "t", t>>
  OBVIOUS
<1>8. Part(id, x) = {k} /\ Parts(task, {c}) = Part(c, r) /\ k \in Graph(task) /\ k[3] = t
  <2>1. Part(id, x) = {k}
    BY <1>1, <1>3, <1>4, <1>7, PartFacts DEF TaskOK
  <2>2. {c} \cap DOMAIN task = {c}
    BY <1>3
  <2>3. k \in Graph(task)
    BY <1>1, <1>4, <2>1 DEF Graph
  <2>4. k[3] = t
    BY <1>7
  <2> QED BY <1>1, <2>1, <2>2, <2>3, <2>4 DEF Parts
<1>9. CASE r.pc = "err"
  <2>1. PICK y, Q : y = Fails(id) /\ Q = release(rc, t)
    OBVIOUS
  <2>2. y = Failed(x)
    BY <1>1, <2>1 DEF Fails, Failed
  <2>3. TaskOK(y, DOMAIN rc) /\ y.call = x.call /\ Part(id, y) = {}
    BY <1>3, <1>4, <2>2, FailedTask
  <2>4. Part(c, r) = {}
    BY <1>4, <1>5, <1>9, ReturnedTask
  <2>5. (Graph(task) \ (Part(id, task[id]) \cup Parts(task, {c}))) \cup Part(id, y) = Graph(task) \ {k}
    BY <1>1, <1>8, <2>3, <2>4
  <2>6. Exact(Q, Graph(task) \ {k}) /\ DOMAIN Q = DOMAIN rc
    BY <1>4, <1>8, <2>1, ExactRelease
  <2>7. Good(Q, cache, gcRunning, Removed([task EXCEPT ![id] = y], {c}))
    <3>1. Exact(Q, (Graph(task) \ (Part(id, task[id]) \cup Parts(task, {c}))) \cup Part(id, y))
      BY <2>5, <2>6
    <3>2. y.call = task[id].call
      BY <1>1, <2>3
    <3> QED BY <1>4, <1>6, <2>3, <2>6, <3>1, <3>2, TasksReturn
  <2> QED BY <1>3, <1>9, <2>1, <2>7 DEF IInv
<1>10. CASE r.pc = "ok"
  <2>1. PICK e : e = r.h
    OBVIOUS
  <2>2. PICK y : y = Collected(x, "reduce", t, e)
    OBVIOUS
  <2>3. w = y
    <3>1. Fields(x)
      BY <1>4 DEF TaskOK
    <3> QED BY <1>1, <1>2, <2>1, <2>2, <3>1 DEF Fields, Collected
  <2>4. e \in Edges(DOMAIN rc) /\ Right(e, x.op, Cofactors(x.args, 2)) /\ Part(c, r) = {<<c, "h", e>>}
    BY <1>4, <1>5, <1>10, <2>1, ReturnedTask
  <2>5. t \in Edges(DOMAIN rc) /\ Right(t, x.op, Cofactors(x.args, 1))
    BY <1>1, <1>3, <1>4 DEF TaskOK, Holds, Faithful
  <2>6. /\ TaskOK(y, DOMAIN rc) /\ y.call = x.call
        /\ Part(id, y) = {<<id, "t", t>>, <<id, "e", e>>}
    <3>1. PICK pc \in {"else", "reduce"} : pc = "reduce"
      OBVIOUS
    <3>2. y = Collected(x, pc, t, e) /\ pc # "else" /\ x.pc \in {"then", "else", "join"}
      BY <1>3, <2>2, <3>1
    <3>3. /\ TaskOK(y, DOMAIN rc) /\ y.call = x.call
          /\ Part(id, y) = IF pc = "else" THEN {<<id, "t", t>>} ELSE {<<id, "t", t>>, <<id, "e", e>>}
      BY <1>4, <2>4, <2>5, <3>1, <3>2, CollectedTask
    <3> QED BY <3>2, <3>3
  <2>7. PICK g, h : g = <<c, "h", e>> /\ h = <<id, "e", e>>
    OBVIOUS
  <2>8. g \in Graph(task) /\ h \notin Graph(task) /\ g[3] = e /\ h[3] = e /\ k # g
    <3>1. g \in Part(c, task[c])
      BY <1>1, <2>4, <2>7
    <3>2. g \in Graph(task)
      BY <1>3, <3>1 DEF Graph
    <3>3. h[1] = id /\ h[3] = e /\ g[3] = e /\ h # k /\ g[1] = c /\ k[1] = id
      BY <1>7, <2>7
    <3>4. h \notin Graph(task)
      BY <1>1, <1>4, <1>8, <3>3, HeldFacts
    <3>5. k # g
      BY <1>5, <3>3
    <3> QED BY <3>2, <3>3, <3>4, <3>5
  <2>9. Exact(rc, (Graph(task) \ {g}) \cup {h})
    BY <1>4, <2>8, ExactMove
  <2>10. (Graph(task) \ (Part(id, task[id]) \cup Parts(task, {c}))) \cup Part(id, y) = (Graph(task) \ {g}) \cup {h}
    <3>1. Part(id, task[id]) = {k} /\ Parts(task, {c}) = {g} /\ Part(id, y) = {k, h}
      BY <1>1, <1>7, <1>8, <2>4, <2>6, <2>7
    <3>2. k \in Graph(task) /\ k # g
      BY <1>8, <2>8
    <3> QED BY <3>1, <3>2
  <2>11. Good(rc, cache, gcRunning, Removed([task EXCEPT ![id] = y], {c}))
    <3>1. Exact(rc, (Graph(task) \ (Part(id, task[id]) \cup Parts(task, {c}))) \cup Part(id, y))
      BY <2>9, <2>10
    <3>2. y.call = task[id].call
      BY <1>1, <2>6
    <3> QED BY <1>4, <1>6, <2>6, <3>1, <3>2, TasksReturn
  <2> QED BY <1>3, <1>10, <2>3, <2>11 DEF IInv
<1> QED BY <1>3, <1>9, <1>10

\* Releasing what a task that may have failed returned keeps the counts exact.
LEMMA ReleaseReturned ==
  ASSUME NEW R, NEW G, Exact(R, G), IsDiagram(DOMAIN R), NEW r, r.pc \in {"ok", "err"}, NEW c,
         r.pc = "ok" => Part(c, r) = {<<c, "h", r.h>>},
         r.pc = "err" => r.h = NoEdge /\ Part(c, r) = {},
         Part(c, r) \subseteq G
  PROVE  Exact(release(R, r.h), G \ Part(c, r)) /\ DOMAIN release(R, r.h) = DOMAIN R
<1>1. PICK w : w = r.h
  OBVIOUS
<1>2. CASE r.pc = "ok"
  <2>1. PICK g : g = <<c, "h", w>>
    OBVIOUS
  <2>2. g \in G /\ g[3] = w /\ Part(c, r) = {g}
    BY <1>1, <1>2, <2>1
  <2>3. Exact(release(R, w), G \ {g}) /\ DOMAIN release(R, w) = DOMAIN R
    BY <2>2, ExactRelease
  <2> QED BY <1>1, <2>2, <2>3
<1>3. CASE r.pc = "err"
  <2>1. w = NoEdge /\ Part(c, r) = {}
    BY <1>1, <1>3
  <2>2. NoEdge \notin DOMAIN R
    <3>1. ASSUME NEW n \in DOMAIN R PROVE n # <<>>
      <4>1. n \in Vars \X Edges(DOMAIN R) \X Edges(DOMAIN R)
        BY DEF IsDiagram, Edges
      <4> QED BY <4>1
    <3> QED BY <3>1 DEF NoEdge
  <2>3. release(R, w) = R
    BY <2>1, <2>2 DEF release
  <2>4. G \ Part(c, r) = G
    BY <2>1
  <2> QED BY <1>1, <2>3, <2>4
<1> QED BY <1>2, <1>3

\* JoinReturns keeps the invariant.
LEMMA JoinReturnsKeeps ==
  ASSUME IInv, NEW id \in Ids, JoinReturns(id)
  PROVE  IInv'
<1>1. PICK x, c, d, a, b : x = task[id] /\ c = First(id) /\ d = Second(id) /\ a = task[c] /\ b = task[d]
  OBVIOUS
<1>2. PICK w : w = [x EXCEPT !.pc = "reduce", !.t = a.h, !.e = b.h]
  OBVIOUS
<1>3. /\ x.pc = "join" /\ c \in DOMAIN task /\ d \in DOMAIN task
      /\ a.pc \in {"ok", "err"} /\ b.pc \in {"ok", "err"}
      /\ ~(a.pc = "ok" /\ b.pc = "ok") =>
           /\ task' = Removed([task EXCEPT ![id] = Fails(id)], {c, d})
           /\ rc' = release(release(rc, a.h), b.h)
      /\ a.pc = "ok" /\ b.pc = "ok" => task' = Removed([task EXCEPT ![id] = w], {c, d}) /\ rc' = rc
      /\ cache' = cache /\ gcRunning' = gcRunning
  <2>1. /\ x.pc = "join" /\ c \in DOMAIN task /\ d \in DOMAIN task
        /\ a.pc \in {"ok", "err"} /\ b.pc \in {"ok", "err"}
    BY <1>1 DEF JoinReturns, At, IsDone, Ids
  <2>2. cache' = cache /\ gcRunning' = gcRunning
    BY DEF JoinReturns
  <2>3. ~(a.pc = "ok" /\ b.pc = "ok") =>
          /\ task' = Removed([task EXCEPT ![id] = Fails(id)], {c, d})
          /\ rc' = release(release(rc, a.h), b.h)
    BY <1>1 DEF JoinReturns
  <2>4. a.pc = "ok" /\ b.pc = "ok" => task' = Removed([task EXCEPT ![id] = w], {c, d}) /\ rc' = rc
    BY <1>1, <1>2 DEF JoinReturns
  <2> QED BY <2>1, <2>2, <2>3, <2>4
<1>4. /\ TaskOK(x, DOMAIN rc) /\ TaskOK(a, DOMAIN rc) /\ TaskOK(b, DOMAIN rc) /\ IsDiagram(DOMAIN rc)
      /\ Tree(task) /\ Good(rc, cache, gcRunning, task) /\ Exact(rc, Graph(task))
      /\ TasksOK(task, DOMAIN rc) /\ id \in DOMAIN task
  BY <1>1, <1>3, GoodFacts DEF Ids, IInv
<1>5. /\ id \in Idents /\ c # id /\ d # id /\ c # d
      /\ a.call = <<x.op, Cofactors(x.args, 1)>> /\ b.call = <<x.op, Cofactors(x.args, 2)>>
  BY <1>1, <1>3, <1>4, NoChildren, ChildrenDiffer
<1>6. PICK S : S = {c, d}
  OBVIOUS
<1>7. /\ S \subseteq {First(id), Second(id)} /\ {First(id), Second(id)} \cap DOMAIN task = S
      /\ \A s \in S : task[s].pc \in {"ok", "err"}
  BY <1>1, <1>3, <1>6
<1>8. /\ Part(id, x) = {} /\ Parts(task, S) = Part(c, a) \cup Part(d, b)
      /\ Part(c, a) \subseteq Graph(task) /\ Part(d, b) \subseteq Graph(task)
  <2>1. Part(id, x) = {}
    BY <1>3, <1>4, PartFacts DEF TaskOK
  <2>2. {c, d} \cap DOMAIN task = {c, d}
    BY <1>3
  <2>3. Part(c, a) \subseteq Graph(task) /\ Part(d, b) \subseteq Graph(task)
    BY <1>1, <1>3 DEF Graph
  <2> QED BY <1>1, <1>6, <2>1, <2>2, <2>3 DEF Parts
<1>9. /\ a.pc = "ok" => /\ a.h \in Edges(DOMAIN rc) /\ Right(a.h, x.op, Cofactors(x.args, 1))
                        /\ Part(c, a) = {<<c, "h", a.h>>}
      /\ a.pc = "err" => a.h = NoEdge /\ Part(c, a) = {}
  BY <1>4, <1>5, ReturnedTask
<1>10. /\ b.pc = "ok" => /\ b.h \in Edges(DOMAIN rc) /\ Right(b.h, x.op, Cofactors(x.args, 2))
                         /\ Part(d, b) = {<<d, "h", b.h>>}
       /\ b.pc = "err" => b.h = NoEdge /\ Part(d, b) = {}
  BY <1>4, <1>5, ReturnedTask
<1>11. Part(c, a) \cap Part(d, b) = {}
  <2>1. \A y \in Part(c, a) : y[1] = c
    BY DEF Part
  <2>2. \A y \in Part(d, b) : y[1] = d
    BY DEF Part
  <2> QED BY <1>5, <2>1, <2>2
<1>12. CASE ~(a.pc = "ok" /\ b.pc = "ok")
  <2>1. PICK y, P, Q : y = Fails(id) /\ P = release(rc, a.h) /\ Q = release(P, b.h)
    OBVIOUS
  <2>2. y = Failed(x)
    BY <1>1, <2>1 DEF Fails, Failed
  <2>3. TaskOK(y, DOMAIN rc) /\ y.call = x.call /\ Part(id, y) = {}
    BY <1>3, <1>4, <2>2, FailedTask
  <2>4. PICK H : H = Graph(task) \ Part(c, a)
    OBVIOUS
  <2>5. Exact(P, H) /\ DOMAIN P = DOMAIN rc
    <3>1. Exact(release(rc, a.h), Graph(task) \ Part(c, a)) /\ DOMAIN release(rc, a.h) = DOMAIN rc
      BY <1>3, <1>4, <1>8, <1>9, ReleaseReturned
    <3> QED BY <2>1, <2>4, <3>1
  <2>6. Exact(Q, H \ Part(d, b)) /\ DOMAIN Q = DOMAIN rc
    <3>1. Part(d, b) \subseteq H /\ IsDiagram(DOMAIN P)
      BY <1>4, <1>8, <1>11, <2>4, <2>5
    <3>2. Exact(release(P, b.h), H \ Part(d, b)) /\ DOMAIN release(P, b.h) = DOMAIN P
      BY <1>3, <1>10, <2>5, <3>1, ReleaseReturned
    <3> QED BY <2>1, <2>5, <3>2
  <2>7. (Graph(task) \ (Part(id, task[id]) \cup Parts(task, S))) \cup Part(id, y) = H \ Part(d, b)
    BY <1>1, <1>8, <2>3, <2>4
  <2>8. Good(Q, cache, gcRunning, Removed([task EXCEPT ![id] = y], S))
    <3>1. Exact(Q, (Graph(task) \ (Part(id, task[id]) \cup Parts(task, S))) \cup Part(id, y))
      BY <2>6, <2>7
    <3>2. y.call = task[id].call
      BY <1>1, <2>3
    <3> QED BY <1>4, <1>7, <2>3, <2>6, <3>1, <3>2, TasksReturn
  <2> QED BY <1>3, <1>6, <1>12, <2>1, <2>8 DEF IInv
<1>13. CASE a.pc = "ok" /\ b.pc = "ok"
  <2>1. PICK t, e : t = a.h /\ e = b.h
    OBVIOUS
  <2>2. PICK y : y = Collected(x, "reduce", t, e)
    OBVIOUS
  <2>3. w = y
    BY <1>2, <2>1, <2>2 DEF Collected
  <2>4. /\ TaskOK(y, DOMAIN rc) /\ y.call = x.call
        /\ Part(id, y) = {<<id, "t", t>>, <<id, "e", e>>}
    <3>1. PICK pc \in {"else", "reduce"} : pc = "reduce"
      OBVIOUS
    <3>2. /\ y = Collected(x, pc, t, e) /\ pc # "else" /\ x.pc \in {"then", "else", "join"}
          /\ t \in Edges(DOMAIN rc) /\ e \in Edges(DOMAIN rc)
          /\ Right(t, x.op, Cofactors(x.args, 1)) /\ Right(e, x.op, Cofactors(x.args, 2))
      BY <1>3, <1>9, <1>10, <1>13, <2>1, <2>2, <3>1
    <3>3. /\ TaskOK(y, DOMAIN rc) /\ y.call = x.call
          /\ Part(id, y) = IF pc = "else" THEN {<<id, "t", t>>} ELSE {<<id, "t", t>>, <<id, "e", e>>}
      BY <1>4, <3>1, <3>2, CollectedTask
    <3> QED BY <3>2, <3>3
  <2>5. PICK g1, h1, g2, h2 : /\ g1 = <<c, "h", t>> /\ h1 = <<id, "t", t>>
                              /\ g2 = <<d, "h", e>> /\ h2 = <<id, "e", e>>
    OBVIOUS
  <2>6. /\ g1[3] = t /\ h1[3] = t /\ g2[3] = e /\ h2[3] = e /\ h1 # h2 /\ g1 # g2 /\ h1 # g2 /\ h2 # g1
        /\ h1[1] = id /\ h2[1] = id
    BY <1>5, <2>5
  <2>7. Part(c, a) = {g1} /\ Part(d, b) = {g2} /\ g1 \in Graph(task) /\ g2 \in Graph(task)
    BY <1>8, <1>9, <1>10, <1>13, <2>1, <2>5
  <2>8. h1 \notin Graph(task) /\ h2 \notin Graph(task)
    BY <1>1, <1>4, <1>8, <2>6, HeldFacts
  <2>9. PICK H : H = (Graph(task) \ {g1}) \cup {h1}
    OBVIOUS
  <2>10. Exact(rc, H)
    BY <1>4, <2>6, <2>7, <2>8, <2>9, ExactMove
  <2>11. Exact(rc, (H \ {g2}) \cup {h2})
    <3>1. g2 \in H /\ h2 \notin H \ {g2}
      BY <2>6, <2>7, <2>8, <2>9
    <3> QED BY <2>6, <2>10, <3>1, ExactMove
  <2>12. (Graph(task) \ (Part(id, task[id]) \cup Parts(task, S))) \cup Part(id, y) = (H \ {g2}) \cup {h2}
    <3>1. Part(id, task[id]) = {} /\ Parts(task, S) = {g1, g2} /\ Part(id, y) = {h1, h2}
      BY <1>1, <1>8, <2>4, <2>5, <2>7
    <3> QED BY <2>6, <2>9, <3>1
  <2>13. Good(rc, cache, gcRunning, Removed([task EXCEPT ![id] = y], S))
    <3>1. Exact(rc, (Graph(task) \ (Part(id, task[id]) \cup Parts(task, S))) \cup Part(id, y))
      BY <2>11, <2>12
    <3>2. y.call = task[id].call
      BY <1>1, <2>4
    <3> QED BY <1>4, <1>7, <2>4, <3>1, <3>2, TasksReturn
  <2> QED BY <1>3, <1>6, <1>13, <2>3, <2>13 DEF IInv
<1> QED BY <1>12, <1>13

\* A table with a new node.
LEMMA TableGrows ==
  ASSUME NEW D, TableOK(D), Cardinality(D) < MaxNodes, NEW l \in Vars, NEW t \in Edges(D), NEW e \in Edges(D),
         t # e, Level(t) > l, Level(e) > l, NEW n, n = <<l, t, e>>, n \notin D
  PROVE  TableOK(D \cup {n}) /\ n \notin Edges(D) /\ n \notin Owned
<1>1. IsDiagram(D) /\ IsFiniteSet(D) /\ Nodes \subseteq D /\ Cardinality(D) \in Nat /\ MaxNodes \in Nat
  BY FS_CardinalityType, ParallelAssumption DEF TableOK
<1>2. IsFiniteSet(D \cup {n}) /\ Cardinality(D \cup {n}) <= MaxNodes
  <2>1. IsFiniteSet(D \cup {n}) /\ Cardinality(D \cup {n}) = Cardinality(D) + 1
    BY <1>1, FS_AddElement
  <2> QED BY <1>1, <2>1
<1>3. IsDiagram(D \cup {n})
  <2>1. PICK B : B = D \cup {n}
    OBVIOUS
  <2>2. n \in Vars \X (B \cup Terminals) \X (B \cup Terminals)
    BY <2>1 DEF Edges
  <2>3. n[1] = l /\ n[2] = t /\ n[3] = e
    OBVIOUS
  <2>4. ASSUME NEW m \in D
        PROVE  /\ m \in Vars \X (B \cup Terminals) \X (B \cup Terminals)
               /\ m[2] # m[3] /\ Level(m[2]) > m[1] /\ Level(m[3]) > m[1]
    <3>1. /\ m \in Vars \X (D \cup Terminals) \X (D \cup Terminals)
          /\ m[2] # m[3] /\ Level(m[2]) > m[1] /\ Level(m[3]) > m[1]
      BY <1>1 DEF IsDiagram
    <3> QED BY <2>1, <3>1
  <2>5. IsDiagram(B)
    BY <2>1, <2>2, <2>3, <2>4 DEF IsDiagram
  <2> QED BY <2>1, <2>5
<1>4. n \notin Terminals
  BY DEF Terminals, False, True, Terminal
<1>5. n \notin Edges(D) /\ n \notin Owned
  <2>1. Owned \subseteq Nodes \cup Terminals
    BY ParallelAssumption
  <2> QED BY <1>1, <1>4, <2>1 DEF Edges
<1> QED BY <1>1, <1>2, <1>3, <1>5 DEF TableOK

\* Reduce keeps the invariant.
LEMMA ReduceKeeps ==
  ASSUME IInv, NEW id \in Ids, Reduce(id)
  PROVE  IInv'
<1>1. PICK x, t, e, l, n : x = task[id] /\ t = x.t /\ e = x.e /\ l = LevelOf(x.args) /\ n = <<l, t, e>>
  OBVIOUS
<1>2. PICK P : P = release(release(rc, t), e)
  OBVIOUS
<1>3. /\ x.pc = "reduce" /\ cache' = cache /\ gcRunning' = gcRunning
      /\ t = e => rc' = release(rc, e) /\ task' = [task EXCEPT ![id] = [Ends(id, t) EXCEPT !.pc = "add"]]
      /\ t # e /\ n \in DOMAIN rc =>
           rc' = retain(P, n) /\ task' = [task EXCEPT ![id] = [Ends(id, n) EXCEPT !.pc = "add"]]
      /\ t # e /\ n \notin DOMAIN rc /\ Cardinality(DOMAIN rc) < MaxNodes =>
           rc' = Extend(rc, n, 1) /\ task' = [task EXCEPT ![id] = [Ends(id, n) EXCEPT !.pc = "add"]]
      /\ t # e /\ n \notin DOMAIN rc /\ ~(Cardinality(DOMAIN rc) < MaxNodes) =>
           rc' = P /\ task' = [task EXCEPT ![id] = Fails(id)]
  <2>1. x.pc = "reduce" /\ cache' = cache /\ gcRunning' = gcRunning
    BY <1>1 DEF Reduce, At
  <2>2. t = e => rc' = release(rc, e) /\ task' = [task EXCEPT ![id] = [Ends(id, t) EXCEPT !.pc = "add"]]
    BY <1>1, Zenon DEF Reduce
  <2>3. t # e /\ n \in DOMAIN rc =>
           rc' = retain(P, n) /\ task' = [task EXCEPT ![id] = [Ends(id, n) EXCEPT !.pc = "add"]]
    BY <1>1, <1>2, Zenon DEF Reduce
  <2>4. t # e /\ n \notin DOMAIN rc /\ Cardinality(DOMAIN rc) < MaxNodes =>
           rc' = Extend(rc, n, 1) /\ task' = [task EXCEPT ![id] = [Ends(id, n) EXCEPT !.pc = "add"]]
    BY <1>1, Zenon DEF Reduce
  <2>5. t # e /\ n \notin DOMAIN rc /\ ~(Cardinality(DOMAIN rc) < MaxNodes) =>
           rc' = P /\ task' = [task EXCEPT ![id] = Fails(id)]
    BY <1>1, <1>2, Zenon DEF Reduce
  <2> QED BY <2>1, <2>2, <2>3, <2>4, <2>5
<1>4. /\ TaskOK(x, DOMAIN rc) /\ IsDiagram(DOMAIN rc) /\ id \in DOMAIN task
      /\ Good(rc, cache, gcRunning, task) /\ Exact(rc, Graph(task))
      /\ TasksOK(task, DOMAIN rc) /\ TableOK(DOMAIN rc) /\ CacheOK(cache, DOMAIN rc, gcRunning)
  BY <1>1, GoodFacts DEF Ids, IInv
<1>5. /\ t \in Edges(DOMAIN rc) /\ e \in Edges(DOMAIN rc)
      /\ Right(t, x.op, Cofactors(x.args, 1)) /\ Right(e, x.op, Cofactors(x.args, 2))
      /\ IsCall(x.op, x.args) /\ LevelOf(x.args) < NumVars
  BY <1>1, <1>3, <1>4 DEF TaskOK, Holds, Faithful, Fields
<1>6. PICK k \in {1, 2, 3} : Recursive(Nodes, k, x.args)
  BY <1>5, CallFacts DEF Recursive
<1>7. PICK op, args : op = x.op /\ args = x.args
  OBVIOUS
<1>8. ASSUME NEW B, IsDiagram(B), DOMAIN rc \subseteq B
      PROVE  /\ l \in Vars /\ Level(t) > l /\ Level(e) > l
             /\ t = e => Right(t, x.op, x.args)
             /\ n \in B => Right(n, x.op, x.args)
  <2>1. t \in Edges(B) /\ e \in Edges(B)
    BY <1>5, <1>8 DEF Edges
  <2>2. /\ Right(t, op, Cofactors(args, 1)) /\ Right(e, op, Cofactors(args, 2))
        /\ Recursive(Nodes, k, args)
    BY <1>5, <1>6, <1>7
  <2>3. /\ LevelOf(args) \in Vars /\ Level(t) > LevelOf(args) /\ Level(e) > LevelOf(args)
        /\ t = e => Right(t, op, args)
        /\ <<LevelOf(args), t, e>> \in B => Right(<<LevelOf(args), t, e>>, op, args)
    BY <1>8, <2>1, <2>2, JoinedRight
  <2> QED BY <1>1, <1>7, <2>3
<1>9. PICK g1, g2, G : g1 = <<id, "t", t>> /\ g2 = <<id, "e", e>> /\ G = Graph(task)
  OBVIOUS
<1>10. /\ Part(id, x) = {g1, g2} /\ g1 \in G /\ g2 \in G /\ g1 # g2 /\ g1[3] = t /\ g2[3] = e
  <2>1. Part(id, x) = {g1, g2}
    BY <1>1, <1>3, <1>4, <1>9, PartFacts DEF TaskOK
  <2>2. Part(id, x) \subseteq Graph(task)
    BY <1>1, <1>4 DEF Graph
  <2>3. g1 # g2 /\ g1[3] = t /\ g2[3] = e
    BY <1>9
  <2> QED BY <1>9, <2>1, <2>2, <2>3
<1>11. ASSUME NEW w PROVE <<id, "h", w>> \notin G /\ <<id, "h", w>>[3] = w
  <2>1. PICK h : h = <<id, "h", w>>
    OBVIOUS
  <2>2. h[1] = id /\ h[3] = w /\ h # g1 /\ h # g2
    BY <1>9, <2>1
  <2>3. h \notin Graph(task)
    BY <1>1, <1>4, <1>10, <2>2, HeldFacts
  <2> QED BY <1>9, <2>1, <2>2, <2>3
<1>12. ASSUME NEW w PROVE [Ends(id, w) EXCEPT !.pc = "add"] = Ended(x, "add", w)
  BY <1>1, <1>4 DEF Ends, Ended, TaskOK, Fields
<1>13. Exact(P, (G \ {g1}) \ {g2}) /\ DOMAIN P = DOMAIN rc
  <2>1. PICK O : O = release(rc, t)
    OBVIOUS
  <2>2. Exact(O, G \ {g1}) /\ DOMAIN O = DOMAIN rc
    BY <1>4, <1>9, <1>10, <2>1, ExactRelease
  <2>3. g2 \in G \ {g1}
    BY <1>10
  <2>4. Exact(release(O, e), (G \ {g1}) \ {g2}) /\ DOMAIN release(O, e) = DOMAIN O
    BY <1>10, <2>2, <2>3, ExactRelease
  <2> QED BY <1>2, <2>1, <2>2, <2>4
<1>14. ASSUME NEW Q, NEW w \in Edges(DOMAIN Q), TableOK(DOMAIN Q), DOMAIN rc \subseteq DOMAIN Q,
              Right(w, x.op, x.args), Exact(Q, ((G \ {g1}) \ {g2}) \cup {<<id, "h", w>>})
       PROVE  Good(Q, cache, gcRunning, [task EXCEPT ![id] = [Ends(id, w) EXCEPT !.pc = "add"]])
  <2>1. PICK y : y = Ended(x, "add", w)
    OBVIOUS
  <2>2. TaskOK(x, DOMAIN Q) /\ IsDiagram(DOMAIN Q)
    BY <1>1, <1>4, <1>14, TasksInLarger DEF TableOK
  <2>3. TaskOK(y, DOMAIN Q) /\ y.call = x.call /\ Part(id, y) = {<<id, "h", w>>}
    BY <1>14, <2>1, <2>2, EndedTask
  <2>4. CacheOK(cache, DOMAIN Q, gcRunning)
    BY <1>4, <1>14 DEF CacheOK, Edges
  <2>5. Exact(Q, (Graph(task) \ Part(id, task[id])) \cup Part(id, y))
    <3>1. (Graph(task) \ Part(id, task[id])) \cup Part(id, y) = ((G \ {g1}) \ {g2}) \cup {<<id, "h", w>>}
      BY <1>1, <1>9, <1>10, <2>3
    <3> QED BY <1>14, <3>1
  <2>6. y.call = task[id].call /\ task[id].pc \notin {"then", "else", "join"}
    BY <1>1, <1>3, <2>3
  <2>7. Good(Q, cache, gcRunning, [task EXCEPT ![id] = y])
    BY <1>4, <1>14, <2>3, <2>4, <2>5, <2>6, OneTaskChanges
  <2> QED BY <1>12, <2>1, <2>7
<1>15. CASE t = e
  <2>1. PICK h, O : h = <<id, "h", t>> /\ O = release(rc, e)
    OBVIOUS
  <2>2. Exact(O, G \ {g2}) /\ DOMAIN O = DOMAIN rc
    BY <1>4, <1>9, <1>10, <2>1, ExactRelease
  <2>3. g1 \in G \ {g2} /\ h \notin (G \ {g2}) \ {g1} /\ h[3] = g1[3]
    BY <1>10, <1>11, <2>1
  <2>4. Exact(O, ((G \ {g2}) \ {g1}) \cup {h})
    BY <2>2, <2>3, ExactMove
  <2>5. ((G \ {g2}) \ {g1}) \cup {h} = ((G \ {g1}) \ {g2}) \cup {<<id, "h", t>>}
    BY <2>1
  <2>6. Right(t, x.op, x.args)
    BY <1>4, <1>8, <1>15
  <2>7. Good(O, cache, gcRunning, [task EXCEPT ![id] = [Ends(id, t) EXCEPT !.pc = "add"]])
    BY <1>4, <1>5, <1>14, <2>2, <2>4, <2>5, <2>6
  <2> QED BY <1>3, <1>15, <2>1, <2>7 DEF IInv
<1>16. CASE t # e /\ n \in DOMAIN rc
  <2>1. PICK h, O, H : h = <<id, "h", n>> /\ O = retain(P, n) /\ H = (G \ {g1}) \ {g2}
    OBVIOUS
  <2>2. h \notin H /\ h[3] = n /\ Exact(P, H) /\ DOMAIN P = DOMAIN rc
    BY <1>11, <1>13, <2>1
  <2>3. Exact(O, H \cup {h}) /\ DOMAIN O = DOMAIN rc
    BY <2>1, <2>2, ExactRetain
  <2>4. Exact(O, ((G \ {g1}) \ {g2}) \cup {<<id, "h", n>>})
    BY <2>1, <2>3
  <2>5. Right(n, x.op, x.args) /\ n \in Edges(DOMAIN rc)
    BY <1>4, <1>8, <1>16 DEF Edges
  <2>6. Good(O, cache, gcRunning, [task EXCEPT ![id] = [Ends(id, n) EXCEPT !.pc = "add"]])
    BY <1>4, <1>14, <2>3, <2>4, <2>5
  <2> QED BY <1>3, <1>16, <2>1, <2>6 DEF IInv
<1>17. CASE t # e /\ n \notin DOMAIN rc /\ Cardinality(DOMAIN rc) < MaxNodes
  <2>1. PICK h, O, B : h = <<id, "h", n>> /\ O = Extend(rc, n, 1) /\ B = DOMAIN rc \cup {n}
    OBVIOUS
  <2>2. l \in Vars /\ Level(t) > l /\ Level(e) > l
    BY <1>4, <1>8
  <2>3. TableOK(B) /\ n \notin Edges(DOMAIN rc) /\ n \notin Owned
    BY <1>1, <1>4, <1>5, <1>17, <2>1, <2>2, TableGrows
  <2>4. \A g \in G : g[3] # n
    BY <1>4, <1>9, <2>3, HeldFacts
  <2>5. \A m \in DOMAIN rc \cup {n} : m[2] # n /\ m[3] # n
    <3>1. n[2] # n /\ n[3] # n
      <4>1. n[2] = t /\ n[3] = e
        BY <1>1
      <4> QED BY <1>5, <2>3, <4>1
    <3>2. ASSUME NEW m \in DOMAIN rc PROVE m[2] # n /\ m[3] # n
      <4>1. m \in Vars \X Edges(DOMAIN rc) \X Edges(DOMAIN rc)
        BY <1>4 DEF IsDiagram, Edges
      <4> QED BY <2>3, <4>1
    <3> QED BY <3>1, <3>2
  <2>6. h \notin G /\ h[3] = n /\ Exact(rc, G)
    BY <1>4, <1>9, <1>11, <2>1
  <2>7. Exact(O, ((G \ {g1}) \ {g2}) \cup {h}) /\ DOMAIN O = DOMAIN rc \cup {n}
    <3>1. Fresh(rc, G, n)
      BY <1>17, <2>3, <2>4, <2>5 DEF Fresh
    <3>2. n = <<l, t, e>> /\ t # e
      BY <1>1, <1>17
    <3>3. Exact(Extend(rc, n, 1), ((G \ {g1}) \ {g2}) \cup {h}) /\ DOMAIN Extend(rc, n, 1) = DOMAIN rc \cup {n}
      BY ONLY <1>10, <2>6, <3>1, <3>2, ExactNode, SMTT(30)
    <3> QED BY <2>1, <3>3
  <2>8. Exact(O, ((G \ {g1}) \ {g2}) \cup {<<id, "h", n>>}) /\ DOMAIN O = B /\ DOMAIN rc \subseteq B
    BY <2>1, <2>7
  <2>9. IsDiagram(B) /\ n \in B /\ n \in Edges(B)
    BY <2>1, <2>3 DEF TableOK, Edges
  <2>10. Right(n, x.op, x.args)
    BY <1>8, <2>8, <2>9
  <2>11. Good(O, cache, gcRunning, [task EXCEPT ![id] = [Ends(id, n) EXCEPT !.pc = "add"]])
    BY <1>14, <2>3, <2>8, <2>9, <2>10
  <2> QED BY <1>3, <1>17, <2>1, <2>11 DEF IInv
<1>18. CASE t # e /\ n \notin DOMAIN rc /\ ~(Cardinality(DOMAIN rc) < MaxNodes)
  <2>1. PICK y : y = Fails(id)
    OBVIOUS
  <2>2. y = Failed(x)
    BY <1>1, <2>1 DEF Fails, Failed
  <2>3. TaskOK(y, DOMAIN rc) /\ y.call = x.call /\ Part(id, y) = {}
    BY <1>3, <1>4, <2>2, FailedTask
  <2>4. Exact(P, (Graph(task) \ Part(id, task[id])) \cup Part(id, y))
    <3>1. (Graph(task) \ Part(id, task[id])) \cup Part(id, y) = (G \ {g1}) \ {g2}
      BY <1>1, <1>9, <1>10, <2>3
    <3> QED BY <1>13, <3>1
  <2>5. /\ y.call = task[id].call /\ task[id].pc \notin {"then", "else", "join"}
        /\ TaskOK(y, DOMAIN P) /\ TableOK(DOMAIN P) /\ CacheOK(cache, DOMAIN P, gcRunning)
        /\ DOMAIN rc \subseteq DOMAIN P
    BY <1>1, <1>3, <1>4, <1>13, <2>3
  <2>6. Good(P, cache, gcRunning, [task EXCEPT ![id] = y])
    BY <1>4, <2>4, <2>5, OneTaskChanges
  <2> QED BY <1>3, <1>18, <2>1, <2>6 DEF IInv
<1> QED BY <1>15, <1>16, <1>17, <1>18

\* A right result may be entered into the cache.
LEMMA CacheGrows ==
  ASSUME NEW C, NEW D, IsDiagram(D), CacheOK(C, D, FALSE), NEW op, NEW args, IsCall(op, args),
         NEW w \in Edges(D), Right(w, op, args), NEW key, key = Key(op, args)
  PROVE  CacheOK(Extend(C, key, w), D, FALSE)
<1>1. PICK K : K = Extend(C, key, w)
  OBVIOUS
<1>2. DOMAIN K = DOMAIN C \cup {key} /\ K[key] = w /\ \A k \in DOMAIN C : k # key => K[k] = C[k]
  BY <1>1 DEF Extend
<1>3. \A k \in DOMAIN K : K[k] \in Edges(D)
  BY <1>2 DEF CacheOK
<1>4. ASSUME NEW op2, NEW args2, IsCall(op2, args2), Key(op2, args2) \in DOMAIN K
      PROVE  Right(K[Key(op2, args2)], op2, args2)
  <2>1. CASE Key(op2, args2) = key
    <3>1. /\ op \in Operators /\ args \in Operands(op, Edges(Nodes)) /\ IsDiagram(Nodes)
          /\ op2 \in Operators /\ args2 \in Operands(op2, Edges(Nodes))
      BY <1>4, CallFacts
    <3>2. Same(op, args, op2, args2)
      BY <2>1, <3>1, KeySame
    <3>3. PICK k \in {1, 2, 3} : args \in [1 .. k -> Edges(Nodes)]
      BY CallFacts
    <3>4. PICK j \in {1, 2, 3} : args2 \in [1 .. j -> Edges(Nodes)]
      BY <1>4, CallFacts
    <3>5. Right(w, op2, args2)
      BY <3>1, <3>2, <3>3, <3>4, SameRight
    <3> QED BY <1>2, <2>1, <3>5
  <2>2. CASE Key(op2, args2) # key
    <3>1. Key(op2, args2) \in DOMAIN C /\ K[Key(op2, args2)] = C[Key(op2, args2)]
      BY <1>2, <1>4, <2>2
    <3>2. Right(C[Key(op2, args2)], op2, args2)
      BY <1>4, <3>1 DEF CacheOK
    <3> QED BY <3>1, <3>2
  <2> QED BY <2>1, <2>2
<1>5. CacheOK(K, D, FALSE)
  BY <1>3, <1>4 DEF CacheOK
<1> QED BY <1>1, <1>5

\* Add keeps the invariant.
LEMMA AddKeeps ==
  ASSUME IInv, NEW id \in Ids, Add(id)
  PROVE  IInv'
<1>1. PICK x, w, key : x = task[id] /\ w = x.h /\ key = Key(x.op, x.args)
  OBVIOUS
<1>2. PICK y, K : y = [x EXCEPT !.pc = "ok"] /\ K = Extend(cache, key, w)
  OBVIOUS
<1>3. /\ x.pc = "add" /\ rc' = rc /\ gcRunning' = gcRunning
      /\ task' = [task EXCEPT ![id] = y]
      /\ gcRunning => cache' = cache
      /\ ~gcRunning => cache' = K
  <2>1. x.pc = "add" /\ rc' = rc /\ gcRunning' = gcRunning
    BY <1>1 DEF Add, At
  <2>2. task' = [task EXCEPT ![id] = y]
    BY <1>1, <1>2 DEF Add
  <2>3. (gcRunning => cache' = cache) /\ (~gcRunning => cache' = K)
    BY <1>1, <1>2, Zenon DEF Add
  <2> QED BY <2>1, <2>2, <2>3
<1>4. /\ TaskOK(x, DOMAIN rc) /\ IsDiagram(DOMAIN rc) /\ CacheOK(cache, DOMAIN rc, gcRunning)
      /\ gcRunning \in BOOLEAN
  BY <1>1, GoodFacts DEF Ids
<1>5. w \in Edges(DOMAIN rc) /\ Right(w, x.op, x.args) /\ IsCall(x.op, x.args) /\ x.t = NoEdge /\ x.e = NoEdge
  BY <1>1, <1>3, <1>4 DEF TaskOK, Holds, Faithful, Fields
<1>6. y = Ended(x, "ok", w)
  <2>1. Fields(x)
    BY <1>4 DEF TaskOK
  <2> QED BY <1>1, <1>2, <1>5, <2>1 DEF Ended, Fields
<1>7. TaskOK(y, DOMAIN rc) /\ y.call = x.call /\ Part(id, y) = {<<id, "h", w>>}
  BY <1>4, <1>5, <1>6, EndedTask
<1>8. Part(id, x) = {<<id, "h", w>>}
  BY <1>1, <1>3, <1>4, PartFacts DEF TaskOK
<1>9. CacheOK(cache', DOMAIN rc, gcRunning)
  <2>1. CASE gcRunning
    BY <1>3, <1>4, <2>1
  <2>2. CASE ~gcRunning
    <3>1. gcRunning = FALSE
      BY <1>4, <2>2, Zenon
    <3>2. CacheOK(cache, DOMAIN rc, FALSE)
      BY <1>4, <3>1
    <3>3. PICK op, args : op = x.op /\ args = x.args
      OBVIOUS
    <3>4. IsCall(op, args) /\ Right(w, op, args) /\ key = Key(op, args)
      BY <1>1, <1>5, <3>3
    <3>5. CacheOK(Extend(cache, key, w), DOMAIN rc, FALSE)
      BY <1>4, <1>5, <3>2, <3>4, CacheGrows
    <3> QED BY <1>2, <1>3, <2>2, <3>1, <3>5
  <2> QED BY <2>1, <2>2
<1>10. PICK C : C = cache'
  OBVIOUS
<1>11. Good(rc, C, gcRunning, [task EXCEPT ![id] = y])
  <2>1. /\ y.call = task[id].call /\ Part(id, y) = Part(id, task[id]) /\ CacheOK(C, DOMAIN rc, gcRunning)
        /\ task[id].pc \notin {"then", "else", "join"}
    BY <1>1, <1>3, <1>7, <1>8, <1>9, <1>10
  <2> QED BY <1>7, <2>1, QuietStep
<1> QED BY <1>3, <1>10, <1>11 DEF IInv

-----------------------------------------------------------------------------
(* Steps of clients and of the garbage collection.                         *)

\* Install keeps the invariant.
LEMMA InstallKeeps ==
  ASSUME IInv, NEW c \in Clients, NEW call \in ClientCalls[c], NEW d \in 0 .. MaxDepth, Install(c, call, d)
  PROVE  IInv'
<1>1. PICK x, op, args, id : /\ op = call[1] /\ args = call[2] /\ x = NewTask(op, args, FALSE, d)
                             /\ id = <<c>>
  OBVIOUS
<1>2. /\ id \notin DOMAIN task /\ task' = Extend(task, id, x)
      /\ rc' = rc /\ cache' = cache /\ gcRunning' = gcRunning
  BY <1>1 DEF Install, Ids
<1>3. IsCall(op, args)
  <2>1. op \in Operators /\ args \in Operands(op, Owned \cup Terminals)
    BY <1>1, ParallelAssumption
  <2>2. Owned \cup Terminals \subseteq Edges(Nodes)
    BY ParallelAssumption DEF Edges
  <2>3. \/ Operands(op, Owned \cup Terminals) = [1 .. 1 -> Owned \cup Terminals]
           /\ Operands(op, Edges(Nodes)) = [1 .. 1 -> Edges(Nodes)]
        \/ Operands(op, Owned \cup Terminals) = [1 .. 2 -> Owned \cup Terminals]
           /\ Operands(op, Edges(Nodes)) = [1 .. 2 -> Edges(Nodes)]
        \/ Operands(op, Owned \cup Terminals) = [1 .. 3 -> Owned \cup Terminals]
           /\ Operands(op, Edges(Nodes)) = [1 .. 3 -> Edges(Nodes)]
    BY <2>1, OperandsFacts
  <2> QED BY <2>1, <2>2, <2>3 DEF IsCall
<1>4. TaskOK(x, DOMAIN rc) /\ x.pc = "start"
  <2>1. PICK sequential \in BOOLEAN : sequential = FALSE
    OBVIOUS
  <2>2. x = NewTask(op, args, sequential, d)
    BY <1>1, <2>1
  <2> QED BY <1>3, <2>2, NewTaskOK
<1>5. id \in Idents /\ \A p \in Idents : First(p) # id /\ Second(p) # id
  BY <1>1, ClientIdent
<1>6. Fits(task, id, x.call)
  BY <1>5, Zenon DEF Fits
<1>7. Good(rc, cache, gcRunning, Extend(task, id, x))
  BY <1>2, <1>4, <1>5, <1>6, TaskStarts DEF IInv
<1> QED BY <1>2, <1>7 DEF IInv

\* Return keeps the invariant.
LEMMA ReturnKeeps ==
  ASSUME IInv, NEW c \in Clients, Return(c)
  PROVE  IInv'
<1>1. PICK id : id = <<c>>
  OBVIOUS
<1>2. PICK x, Q, U : x = task[id] /\ Q = release(rc, x.h) /\ U = Removed(task, {id})
  OBVIOUS
<1>3. /\ id \in DOMAIN task /\ x.pc \in {"ok", "err"} /\ rc' = Q /\ task' = U
      /\ cache' = cache /\ gcRunning' = gcRunning
  BY <1>1, <1>2 DEF Return, IsDone, Ids
<1>4. /\ TaskOK(x, DOMAIN rc) /\ IsDiagram(DOMAIN rc) /\ Exact(rc, Graph(task)) /\ Tree(task)
      /\ TasksOK(task, DOMAIN rc) /\ TableOK(DOMAIN rc) /\ CacheOK(cache, DOMAIN rc, gcRunning)
      /\ gcRunning \in BOOLEAN
  BY <1>2, <1>3, GoodFacts
<1>5. Exact(Q, Graph(task) \ Part(id, x)) /\ DOMAIN Q = DOMAIN rc
  <2>1. x.pc = "ok" => Part(id, x) = {<<id, "h", x.h>>}
    BY <1>4, PartFacts DEF TaskOK
  <2>2. x.pc = "err" => x.h = NoEdge /\ Part(id, x) = {}
    <3>1. x.pc = "err" => x.h = NoEdge
      BY <1>4 DEF TaskOK, Holds
    <3>2. x.pc = "err" => Part(id, x) = {}
      BY <1>4, PartFacts DEF TaskOK
    <3> QED BY <3>1, <3>2
  <2>3. Part(id, x) \subseteq Graph(task)
    BY <1>2, <1>3 DEF Graph
  <2>4. /\ Exact(release(rc, x.h), Graph(task) \ Part(id, x))
        /\ DOMAIN release(rc, x.h) = DOMAIN rc
    BY <1>3, <1>4, <2>1, <2>2, <2>3, ReleaseReturned
  <2> QED BY <1>2, <2>4
<1>6. DOMAIN U = DOMAIN task \ {id} /\ \A a \in DOMAIN U : U[a] = task[a]
  BY <1>2 DEF Removed
<1>7. Graph(U) = Graph(task) \ Part(id, x)
  <2>1. Agree(task, U, {id})
    BY <1>6 DEF Agree
  <2>2. Parts(task, {id}) = Part(id, x) /\ Parts(U, {id}) = {}
    <3>1. {id} \cap DOMAIN task = {id} /\ {id} \cap DOMAIN U = {}
      BY <1>3, <1>6
    <3> QED BY <1>2, <3>1 DEF Parts
  <2>3. Graph(U) = (Graph(task) \ Parts(task, {id})) \cup Parts(U, {id})
    BY <2>1, GraphChange
  <2> QED BY <2>2, <2>3
<1>8. Tree(U)
  <2>1. U = [a \in DOMAIN U |-> U[a]] /\ DOMAIN U \subseteq Idents
    BY <1>2, <1>4, <1>6 DEF Tree, Removed
  <2>2. ASSUME NEW p \in Idents
        PROVE  /\ Child(U, p, First(p), 1, {"then", "join"})
               /\ Child(U, p, Second(p), 2, {"else", "join"})
    <3>1. /\ Child(task, p, First(p), 1, {"then", "join"})
          /\ Child(task, p, Second(p), 2, {"else", "join"})
      BY <1>4, Zenon DEF Tree
    <3>2. Child(U, p, First(p), 1, {"then", "join"})
      BY <1>2, <1>3, <1>6, <3>1 DEF Child
    <3>3. Child(U, p, Second(p), 2, {"else", "join"})
      BY <1>2, <1>3, <1>6, <3>1 DEF Child
    <3> QED BY <3>2, <3>3
  <2> QED BY <2>1, <2>2, Zenon DEF Tree
<1>9. TasksOK(U, DOMAIN Q)
  BY <1>4, <1>5, <1>6 DEF TasksOK
<1>10. Good(Q, cache, gcRunning, U)
  BY <1>4, <1>5, <1>7, <1>8, <1>9 DEF Good
<1> QED BY <1>3, <1>10 DEF IInv

\* GcBegin keeps the invariant.
LEMMA GcBeginKeeps ==
  ASSUME IInv, GcBegin
  PROVE  IInv'
<1>1. rc' = rc /\ cache' = <<>> /\ gcRunning' = TRUE /\ task' = task
  BY DEF GcBegin
<1>2. CacheOK(<<>>, DOMAIN rc, TRUE)
  BY DEF CacheOK
<1>3. Good(rc, <<>>, TRUE, task)
  BY <1>2, GoodFacts DEF Good
<1> QED BY <1>1, <1>3 DEF IInv

\* The counts r are exact for a diagram with the nodes of clients and the held edges.
Live(R, G) ==
  /\ Exact(R, G) /\ IsDiagram(DOMAIN R) /\ Nodes \subseteq DOMAIN R
  /\ \A g \in G : g[3] \in Edges(DOMAIN R)

\* They stay so when the gc removes the dead nodes of a level: none of them has a
\* parent, an owner or a holder.
LEMMA LevelSwept ==
  ASSUME NEW R, NEW G, Live(R, G), NEW l, NEW Q, Q = Without(R, Dead(R, l))
  PROVE  Live(Q, G) /\ DOMAIN Q \subseteq DOMAIN R
<1>0. /\ Exact(R, G) /\ IsDiagram(DOMAIN R) /\ Nodes \subseteq DOMAIN R
      /\ \A g \in G : g[3] \in Edges(DOMAIN R)
  BY DEF Live
<1>1. PICK X, D, B : X = Dead(R, l) /\ D = DOMAIN R /\ B = D \ X
  OBVIOUS
<1>2. Exact(Q, G) /\ DOMAIN Q = B
  BY <1>0, <1>1, ExactSweep
<1>3. ASSUME NEW n \in X
      PROVE  /\ n \notin Owned /\ \A g \in G : g[3] # n
             /\ \A m \in D : n # m[2] /\ n # m[3]
  <2>1. n \in DOMAIN R /\ R[n] = 0
    BY <1>1, <1>3 DEF Dead
  <2>2. ParentEdges(DOMAIN R, n) = {} /\ n \notin Owned /\ \A g \in G : g[3] # n
    BY <1>0, <2>1, UncountedNode
  <2>3. ASSUME NEW m \in D, n = m[2] \/ n = m[3] PROVE FALSE
    <3>1. <<m, 1>> \in D \X {1, 2} /\ <<m, 2>> \in D \X {1, 2}
      OBVIOUS
    <3>2. Children(<<m, 1>>[1])[<<m, 1>>[2]] = m[2] /\ Children(<<m, 2>>[1])[<<m, 2>>[2]] = m[3]
      BY DEF Children
    <3>3. <<m, 1>> \in ParentEdges(D, n) \/ <<m, 2>> \in ParentEdges(D, n)
      BY <2>3, <3>1, <3>2 DEF ParentEdges
    <3> QED BY <1>1, <2>2, <3>3
  <2> QED BY <2>2, <2>3
<1>4. IsDiagram(B)
  <2>1. ASSUME NEW m \in B
        PROVE  /\ m \in Vars \X (B \cup Terminals) \X (B \cup Terminals)
               /\ m[2] # m[3] /\ Level(m[2]) > m[1] /\ Level(m[3]) > m[1]
    <3>1. m \in D
      BY <1>1, <2>1
    <3>2. /\ m \in Vars \X (D \cup Terminals) \X (D \cup Terminals)
          /\ m[2] # m[3] /\ Level(m[2]) > m[1] /\ Level(m[3]) > m[1]
      BY <1>0, <1>1, <3>1 DEF IsDiagram
    <3>3. m[2] \notin X /\ m[3] \notin X
      BY <1>3, <3>1
    <3> QED BY <1>1, <3>2, <3>3
  <2> QED BY <2>1 DEF IsDiagram
<1>5. Nodes \subseteq B
  <2>1. ASSUME NEW n \in Nodes, n \in X PROVE FALSE
    <3>1. n \notin Owned /\ \A m \in D : n # m[2] /\ n # m[3]
      BY <1>3, <2>1
    <3>2. PICK p \in Nodes : n \in {p[2], p[3]}
      BY <3>1, ParallelAssumption
    <3> QED BY <1>0, <1>1, <3>1, <3>2
  <2> QED BY <1>0, <1>1, <2>1
<1>6. \A g \in G : g[3] \in Edges(B)
  BY <1>0, <1>1, <1>3 DEF Edges
<1> QED BY <1>1, <1>2, <1>4, <1>5, <1>6 DEF Live

\* Swept is what its definition says.
LEMMA SweptFacts ==
  ASSUME NEW G, Exact(rc, G)
  PROVE  /\ Swept[0] = rc
         /\ \A l \in 1 .. NumVars : Swept[l] = Without(Swept[l - 1], Dead(Swept[l - 1], l - 1))
<1> DEFINE S == UNION {[X -> Int] : X \in SUBSET DOMAIN rc}
           F == [l \in 1 .. NumVars |-> [r \in S |-> Without(r, Dead(r, l - 1))]]
           Solves(at) == at = [l \in 0 .. NumVars |->
             IF l = 0 THEN rc
             ELSE LET r == at[l - 1]
                      dead == {n \in DOMAIN r : Level(n) = l - 1 /\ r[n] = 0} IN
                  [n \in DOMAIN r \ dead |-> r[n] - Cardinality(ParentEdges(dead, n))]]
<1>1. NumVars \in Nat
  BY ParallelAssumption
<1>2. rc \in S
  <2>1. ASSUME NEW n \in DOMAIN rc PROVE rc[n] \in Int
    <3>1. PICK a, b, c : /\ a = Cardinality(ParentEdges(DOMAIN rc, n)) /\ b = Cardinality({n} \cap Owned)
                         /\ c = Cardinality(Refs(G, n))
      OBVIOUS
    <3>2. a \in Nat /\ b \in Nat /\ c \in Nat
      BY <3>1, FiniteCounts DEF Exact
    <3>3. rc[n] = a + b + c
      BY <3>1 DEF Exact
    <3> QED BY <3>2, <3>3
  <2>2. rc = [n \in DOMAIN rc |-> rc[n]]
    BY DEF Exact
  <2>3. rc \in [DOMAIN rc -> Int]
    BY <2>1, <2>2
  <2> QED BY <2>3
<1>3. ASSUME NEW l \in 1 .. NumVars, NEW r \in S PROVE F[l][r] \in S
  <2>1. PICK X \in SUBSET DOMAIN rc : r \in [X -> Int]
    OBVIOUS
  <2>2. PICK Y : Y = Dead(r, l - 1)
    OBVIOUS
  <2>3. IsFiniteSet(Y) /\ Y \subseteq X
    <3>1. Y \subseteq X
      BY <2>1, <2>2 DEF Dead
    <3>2. IsFiniteSet(DOMAIN rc)
      BY DEF Exact
    <3> QED BY <2>1, <3>1, <3>2, FS_Subset
  <2>4. ASSUME NEW n \in X PROVE r[n] - Cardinality(ParentEdges(Y, n)) \in Int
    <3>1. r[n] \in Int
      BY <2>1
    <3>2. IsFiniteSet({}) /\ IsFiniteSet(Y)
      BY <2>3, FS_EmptySet
    <3>3. Cardinality(ParentEdges(Y, n)) \in Nat
      BY <3>2, FiniteCounts
    <3> QED BY <3>1, <3>3
  <2>5. Without(r, Y) \in [X \ Y -> Int]
    BY <2>1, <2>4 DEF Without
  <2>6. F[l][r] = Without(r, Y)
    BY <2>2
  <2> QED BY <2>1, <2>5, <2>6
<1>4. PICK g \in [0 .. NumVars -> S] : g[0] = rc /\ \A l \in 1 .. NumVars : g[l] = F[l][g[l - 1]]
  <2>1. StaysIn(F, NumVars, S)
    BY <1>3 DEF StaysIn
  <2> HIDE DEF F, S
  <2> QED BY <1>1, <1>2, <2>1, RecursionUpTo
<1>5. ASSUME NEW l \in 1 .. NumVars PROVE g[l] = Without(g[l - 1], Dead(g[l - 1], l - 1))
  <2>1. g[l - 1] \in S
    BY <1>1, <1>4
  <2> QED BY <1>4, <2>1
<1>6. Solves(g)
  <2>1. \A l \in 0 .. NumVars : l # 0 => l \in 1 .. NumVars
    BY <1>1
  <2>2. g = [l \in 0 .. NumVars |-> g[l]]
    BY <1>4
  <2>3. ASSUME NEW l \in 0 .. NumVars
        PROVE  g[l] = IF l = 0 THEN rc
                      ELSE LET r == g[l - 1]
                               dead == {n \in DOMAIN r : Level(n) = l - 1 /\ r[n] = 0} IN
                           [n \in DOMAIN r \ dead |-> r[n] - Cardinality(ParentEdges(dead, n))]
    <3>1. CASE l = 0
      BY <1>4, <3>1
    <3>2. CASE l # 0
      <4>1. g[l] = Without(g[l - 1], Dead(g[l - 1], l - 1))
        BY <1>5, <2>1, <3>2
      <4> QED BY <3>2, <4>1 DEF Without, Dead
    <3> QED BY <3>1, <3>2
  <2> QED BY <2>2, <2>3
<1>7. Swept = CHOOSE at : Solves(at)
  BY DEF Swept
<1>8. Solves(Swept)
  <2> HIDE DEF Solves
  <2> QED BY <1>6, <1>7
<1>9. PICK at : at = Swept
  OBVIOUS
<1>10. Solves(at)
  <2> HIDE DEF Solves
  <2> QED BY <1>8, <1>9
<1>11. 0 \in 0 .. NumVars /\ \A l \in 1 .. NumVars : l \in 0 .. NumVars /\ l # 0
  BY <1>1
<1>12. at[0] = rc
  BY <1>10, <1>11
<1>13. ASSUME NEW l \in 1 .. NumVars PROVE at[l] = Without(at[l - 1], Dead(at[l - 1], l - 1))
  <2>1. at[l] = LET r == at[l - 1]
                    dead == {n \in DOMAIN r : Level(n) = l - 1 /\ r[n] = 0} IN
                [n \in DOMAIN r \ dead |-> r[n] - Cardinality(ParentEdges(dead, n))]
    BY <1>10, <1>11
  <2> QED BY <2>1 DEF Without, Dead
<1> QED BY <1>9, <1>12, <1>13

\* The gc leaves exact counts, and it removes nothing that is in use.
LEMMA TablesSwept ==
  ASSUME NEW G, Live(rc, G)
  PROVE  Live(Swept[NumVars], G) /\ DOMAIN Swept[NumVars] \subseteq DOMAIN rc
<1> DEFINE Kept == {l \in 0 .. NumVars : Live(Swept[l], G) /\ DOMAIN Swept[l] \subseteq DOMAIN rc}
<1>1. NumVars \in Nat /\ Exact(rc, G)
  BY ParallelAssumption DEF Live
<1>2. 0 \in Kept
  <2>1. Swept[0] = rc
    BY <1>1, SweptFacts
  <2> QED BY <1>1, <2>1
<1>3. ASSUME NEW l \in 0 .. NumVars - 1, l \in Kept PROVE l + 1 \in Kept
  <2>1. l + 1 \in 1 .. NumVars /\ (l + 1) - 1 = l
    BY <1>1
  <2>2. PICK R, Q : R = Swept[l] /\ Q = Swept[l + 1]
    OBVIOUS
  <2>3. Q = Without(R, Dead(R, l))
    BY <1>1, <2>1, <2>2, SweptFacts
  <2>4. Live(R, G) /\ DOMAIN R \subseteq DOMAIN rc
    BY <1>3, <2>2
  <2>5. Live(Q, G) /\ DOMAIN Q \subseteq DOMAIN R
    BY <2>3, <2>4, LevelSwept
  <2> QED BY <1>1, <2>1, <2>2, <2>4, <2>5
<1>4. 0 .. NumVars \subseteq Kept
  <2> HIDE DEF Kept
  <2> QED BY <1>1, <1>2, <1>3, InductionUpTo
<1>5. NumVars \in 0 .. NumVars
  BY <1>1
<1> QED BY <1>4, <1>5

\* GcEnd keeps the invariant.
LEMMA GcEndKeeps ==
  ASSUME IInv, GcEnd
  PROVE  IInv'
<1>1. PICK Q : Q = Swept[NumVars]
  OBVIOUS
<1>2. gcRunning /\ rc' = Q /\ gcRunning' = FALSE /\ cache' = cache /\ task' = task
  BY <1>1 DEF GcEnd
<1>3. /\ TableOK(DOMAIN rc) /\ Exact(rc, Graph(task)) /\ IsDiagram(DOMAIN rc) /\ Tree(task)
      /\ TasksOK(task, DOMAIN rc) /\ CacheOK(cache, DOMAIN rc, gcRunning)
  BY GoodFacts
<1>4. Live(rc, Graph(task))
  BY <1>3, HeldFacts DEF Live, TableOK
<1>5. Live(Q, Graph(task)) /\ DOMAIN Q \subseteq DOMAIN rc
  BY <1>1, <1>4, TablesSwept
<1>6. TableOK(DOMAIN Q)
  <2>1. IsFiniteSet(DOMAIN rc) /\ Cardinality(DOMAIN rc) <= MaxNodes /\ MaxNodes \in Nat
    BY <1>3, ParallelAssumption DEF TableOK
  <2>2. /\ IsFiniteSet(DOMAIN Q) /\ Cardinality(DOMAIN Q) <= Cardinality(DOMAIN rc)
        /\ Cardinality(DOMAIN Q) \in Nat /\ Cardinality(DOMAIN rc) \in Nat
    BY <1>5, <2>1, FS_Subset, FS_CardinalityType
  <2>3. Cardinality(DOMAIN Q) <= MaxNodes
    BY <2>1, <2>2
  <2> QED BY <1>5, <2>2, <2>3 DEF TableOK, Live
<1>7. CacheOK(cache, DOMAIN Q, FALSE)
  <2>1. DOMAIN cache = {}
    BY <1>2, <1>3 DEF CacheOK
  <2> QED BY <2>1 DEF CacheOK
<1>8. ASSUME NEW id \in DOMAIN task PROVE TaskOK(task[id], DOMAIN Q)
  <2>1. PICK x : x = task[id]
    OBVIOUS
  <2>2. TaskOK(x, DOMAIN rc)
    BY <1>3, <2>1 DEF TasksOK
  <2>3. ASSUME NEW w \in Edges(DOMAIN rc), w \in {x.t, x.e, x.h} PROVE w \in Edges(DOMAIN Q)
    <3>1. w # NoEdge
      BY <1>3, EdgeFacts
    <3>2. PICK g \in {<<id, "t", w>>, <<id, "e", w>>, <<id, "h", w>>} : g \in Part(id, x)
      BY <2>3, <3>1 DEF Part
    <3>3. g \in Graph(task) /\ g[3] = w
      BY <2>1, <3>2 DEF Graph
    <3> QED BY <1>5, <3>3 DEF Live
  <2>4. TaskOK(x, DOMAIN Q)
    BY <2>2, <2>3, HoldsIn
  <2> QED BY <2>1, <2>4
<1>9. Good(Q, cache, FALSE, task)
  BY <1>3, <1>5, <1>6, <1>7, <1>8 DEF Good, TasksOK, Live
<1> QED BY <1>2, <1>9 DEF IInv

-----------------------------------------------------------------------------
(* The invariant.                                                          *)

\* The invariant holds initially.
LEMMA InitKeeps ==
  ASSUME Init
  PROVE  IInv
<1>1. /\ DOMAIN rc = Nodes /\ rc = [n \in DOMAIN rc |-> rc[n]]
      /\ \A n \in Nodes : rc[n] = Cardinality(ParentEdges(Nodes, n)) + Cardinality({n} \cap Owned)
      /\ cache = <<>> /\ gcRunning = FALSE /\ task = <<>>
  BY DEF Init
<1>2. DOMAIN task = {} /\ DOMAIN cache = {}
  BY <1>1
<1>3. /\ IsDiagram(Nodes) /\ IsFiniteSet(Nodes) /\ Cardinality(Nodes) <= MaxNodes
  BY ParallelAssumption
<1>4. Graph(task) = {}
  BY <1>2 DEF Graph
<1>5. Exact(rc, Graph(task))
  <2>1. ASSUME NEW n \in DOMAIN rc
        PROVE  rc[n] = Cardinality(ParentEdges(DOMAIN rc, n)) + Cardinality({n} \cap Owned)
                         + Cardinality(Refs({}, n))
    <3>1. PICK a, b, c : /\ a = Cardinality(ParentEdges(DOMAIN rc, n)) /\ b = Cardinality({n} \cap Owned)
                         /\ c = Cardinality(Refs({}, n))
      OBVIOUS
    <3>2. a \in Nat /\ b \in Nat
      BY <1>1, <1>3, <3>1, FS_EmptySet, FiniteCounts
    <3>3. c = 0
      <4>1. Refs({}, n) = {}
        BY DEF Refs
      <4> QED BY <3>1, <4>1, FS_EmptySet
    <3>4. rc[n] = a + b
      BY <1>1, <3>1
    <3>5. rc[n] = a + b + c
      BY <3>2, <3>3, <3>4
    <3> QED BY <3>1, <3>5
  <2>2. IsFiniteSet({}) /\ IsFiniteSet(DOMAIN rc)
    BY <1>1, <1>3, FS_EmptySet
  <2> QED BY <1>1, <1>4, <2>1, <2>2 DEF Exact
<1>6. TableOK(DOMAIN rc)
  BY <1>1, <1>3 DEF TableOK
<1>7. CacheOK(cache, DOMAIN rc, gcRunning)
  BY <1>2 DEF CacheOK
<1>8. TasksOK(task, DOMAIN rc)
  BY <1>2 DEF TasksOK
<1>9. Tree(task)
  <2>1. task = [id \in DOMAIN task |-> task[id]] /\ DOMAIN task \subseteq Idents
    BY <1>1, <1>2
  <2>2. \A id \in Idents : /\ Child(task, id, First(id), 1, {"then", "join"})
                           /\ Child(task, id, Second(id), 2, {"else", "join"})
    BY <1>2 DEF Child
  <2> QED BY <2>1, <2>2, Zenon DEF Tree
<1>10. gcRunning \in BOOLEAN
  BY <1>1
<1> QED BY <1>5, <1>6, <1>7, <1>8, <1>9, <1>10 DEF IInv, Good

\* Every step keeps the invariant.
LEMMA NextKeeps ==
  ASSUME IInv, [Next]_vars
  PROVE  IInv'
<1>1. CASE UNCHANGED vars
  <2>1. rc' = rc /\ cache' = cache /\ gcRunning' = gcRunning /\ task' = task
    BY <1>1 DEF vars
  <2>2. Good(rc, cache, gcRunning, task)
    BY DEF IInv
  <2> QED BY <2>1, <2>2 DEF IInv
<1>2. ASSUME NEW id \in Ids, Step(id) PROVE IInv'
  <2>1. CASE TerminalCase(id) BY <2>1, TerminalCaseKeeps
  <2>2. CASE Delegate(id) BY <2>2, DelegateKeeps
  <2>3. CASE CacheHit(id) BY <2>3, CacheHitKeeps
  <2>4. CASE Recurse(id) BY <2>4, RecurseKeeps
  <2>5. CASE ThenReturns(id) BY <2>5, ThenReturnsKeeps
  <2>6. CASE ElseReturns(id) BY <2>6, ElseReturnsKeeps
  <2>7. CASE JoinReturns(id) BY <2>7, JoinReturnsKeeps
  <2>8. CASE Reduce(id) BY <2>8, ReduceKeeps
  <2>9. CASE Add(id) BY <2>9, AddKeeps
  <2> QED BY <1>2, <2>1, <2>2, <2>3, <2>4, <2>5, <2>6, <2>7, <2>8, <2>9 DEF Step
<1>3. ASSUME NEW c \in Clients, Return(c) PROVE IInv'
  BY <1>3, ReturnKeeps
<1>4. ASSUME NEW c \in Clients, NEW call \in ClientCalls[c], NEW d \in 0 .. MaxDepth, Install(c, call, d)
      PROVE  IInv'
  BY <1>4, InstallKeeps
<1>5. CASE GcBegin BY <1>5, GcBeginKeeps
<1>6. CASE GcEnd BY <1>6, GcEndKeeps
<1> QED BY <1>1, <1>2, <1>3, <1>4, <1>5, <1>6 DEF Next

LEMMA Invariance == Spec => []IInv
<1>1. Init => IInv
  BY InitKeeps
<1>2. IInv /\ [Next]_vars => IInv'
  BY NextKeeps
<1> QED BY <1>1, <1>2, PTL DEF Spec

-----------------------------------------------------------------------------
(* What the invariant implies.                                             *)

LEMMA TypeFromInvariant ==
  ASSUME IInv
  PROVE  TypeOK
<1>1. /\ TableOK(DOMAIN rc) /\ Exact(rc, Graph(task)) /\ gcRunning \in BOOLEAN
      /\ \A id \in DOMAIN task : TaskOK(task[id], DOMAIN rc)
  BY GoodFacts
<1>2. rc \in [DOMAIN rc -> Nat]
  <2>1. ASSUME NEW n \in DOMAIN rc PROVE rc[n] \in Nat
    <3>1. PICK a, b, c : /\ a = Cardinality(ParentEdges(DOMAIN rc, n)) /\ b = Cardinality({n} \cap Owned)
                         /\ c = Cardinality(Refs(Graph(task), n))
      OBVIOUS
    <3>2. a \in Nat /\ b \in Nat /\ c \in Nat
      BY <1>1, <3>1, FiniteCounts DEF Exact
    <3>3. rc[n] = a + b + c
      BY <1>1, <3>1 DEF Exact
    <3> QED BY <3>2, <3>3
  <2>2. rc = [n \in DOMAIN rc |-> rc[n]]
    BY <1>1 DEF Exact
  <2> QED BY <2>1, <2>2
<1>3. IsFiniteSet(DOMAIN rc) /\ Cardinality(DOMAIN rc) <= MaxNodes
  BY <1>1 DEF TableOK
<1>4. ASSUME NEW id \in Ids
      PROVE  /\ task[id].op \in Operators /\ task[id].args \in Operands(task[id].op, Nodes \cup Terminals)
             /\ task[id].sequential \in BOOLEAN /\ task[id].depth \in 0 .. MaxDepth
             /\ task[id].pc \in {"start", "then", "else", "join", "reduce", "add", "ok", "err"}
  <2>1. Fields(task[id])
    BY <1>1, <1>4 DEF Ids, TaskOK
  <2> QED BY <2>1 DEF Fields, IsCall, Edges
<1> QED BY <1>1, <1>2, <1>3, <1>4 DEF TypeOK

LEMMA CountsFromInvariant ==
  ASSUME IInv
  PROVE  CountsExact
<1>1. Exact(rc, Graph(task)) /\ IsDiagram(DOMAIN rc)
  BY GoodFacts
<1>2. ASSUME NEW n \in DOMAIN rc PROVE {x \in Held : x[3] = n} = Refs(Graph(task), n)
  <2>1. n # NoEdge
    BY <1>1, EdgeFacts DEF Edges
  <2>2. ASSUME NEW x, x[3] = n PROVE x \in Held <=> x \in Graph(task)
    <3>1. ASSUME NEW id \in DOMAIN task PROVE x \in HeldBy(id) <=> x \in Part(id, task[id])
      BY <2>1, <2>2 DEF HeldBy, Part
    <3> QED BY <3>1, Zenon DEF Held, Graph, Ids
  <2> QED BY <2>2 DEF Refs
<1> QED BY <1>1, <1>2 DEF CountsExact, Exact

LEMMA LiveFromInvariant ==
  ASSUME IInv
  PROVE  NoDangling
<1>1. /\ CacheOK(cache, DOMAIN rc, gcRunning) /\ Edges(Nodes) \subseteq Edges(DOMAIN rc)
      /\ \A id \in DOMAIN task : TaskOK(task[id], DOMAIN rc)
  BY GoodFacts
<1>2. ASSUME NEW x \in Held PROVE InTable(x[3])
  <2>1. PICK id \in DOMAIN task : x \in HeldBy(id)
    BY <1>2 DEF Held, Ids
  <2>2. x[3] \in {task[id].t, task[id].e, task[id].h}
    BY <2>1 DEF HeldBy
  <2>3. Holds(task[id], DOMAIN rc)
    BY <1>1, <2>1 DEF TaskOK
  <2> QED BY <2>2, <2>3 DEF Holds, InTable, Edges
<1>3. ASSUME NEW id \in Ids, NEW i \in DOMAIN task[id].args PROVE InTable(task[id].args[i])
  <2>1. IsCall(task[id].op, task[id].args)
    BY <1>1, <1>3 DEF Ids, TaskOK, Fields
  <2>2. PICK op, args : op = task[id].op /\ args = task[id].args
    OBVIOUS
  <2>3. PICK k \in {1, 2, 3} : args \in [1 .. k -> Edges(Nodes)]
    BY <2>1, <2>2, CallFacts
  <2>4. args[i] \in Edges(Nodes)
    BY <1>3, <2>2, <2>3
  <2> QED BY <1>1, <2>2, <2>4 DEF InTable, Edges
<1>4. \A key \in DOMAIN cache : InTable(cache[key])
  BY <1>1 DEF CacheOK, InTable, Edges
<1> QED BY <1>2, <1>3, <1>4 DEF NoDangling

\* The value of an operator is a truth value.
LEMMA MeaningType ==
  ASSUME NEW op, NEW args, IsCall(op, args), NEW p
  PROVE  Meaning(op, args, p) \in BOOLEAN
<1>1. op \in Operators /\ args \in Operands(op, Edges(Nodes)) /\ IsDiagram(Nodes)
  BY CallFacts
<1>2. CASE op = "not"
  <2>1. DOMAIN args = 1 .. 1
    BY <1>1, <1>2, OperandsFacts
  <2>2. Meaning("not", args, p) = ~Value(args[1], p)
    BY <2>1, OtherMeaning
  <2> QED BY <1>2, <2>2, Zenon
<1>3. CASE op = "ite"
  <2>1. args \in [1 .. 3 -> Edges(Nodes)]
    BY <1>1, <1>3, OperandsFacts
  <2>2. DOMAIN args = 1 .. 3 /\ args[2] \in Edges(Nodes) /\ args[3] \in Edges(Nodes)
    BY <2>1
  <2>3. Value(args[2], p) \in BOOLEAN /\ Value(args[3], p) \in BOOLEAN
    BY <1>1, <2>2, ValueType
  <2>4. Meaning("ite", args, p) = IF Value(args[1], p) THEN Value(args[2], p) ELSE Value(args[3], p)
    BY <2>2, OtherMeaning
  <2> QED BY <1>3, <2>3, <2>4, Zenon
<1>4. CASE op \in Binaries
  <2>1. DOMAIN args = 1 .. 2
    BY <1>1, <1>4, OperandsFacts
  <2>2. PICK a, b : a = Value(args[1], p) /\ b = Value(args[2], p)
    OBVIOUS
  <2>3. \/ Meaning(op, args, p) = (a /\ b)
        \/ Meaning(op, args, p) = (a \/ b)
        \/ Meaning(op, args, p) = ~(a /\ b)
        \/ Meaning(op, args, p) = ~(a \/ b)
        \/ Meaning(op, args, p) = (a # b)
        \/ Meaning(op, args, p) = (a = b)
        \/ Meaning(op, args, p) = (a => b)
        \/ Meaning(op, args, p) = (~a /\ b)
    BY <1>4, <2>1, <2>2, BinaryMeaning DEF Binaries, Commutative
  <2> QED BY <2>3, Zenon
<1> QED BY <1>1, <1>2, <1>3, <1>4, OperandsFacts

LEMMA RightFromInvariant ==
  ASSUME IInv
  PROVE  ResultRight
<1>1. IsDiagram(DOMAIN rc) /\ \A id \in DOMAIN task : TaskOK(task[id], DOMAIN rc)
  BY GoodFacts
<1>2. ASSUME NEW id \in Ids, task[id].h # NoEdge, NEW p \in SUBSET Vars
      PROVE  Value(task[id].h, p) = Meaning(task[id].call[1], task[id].call[2], p)
  <2>1. PICK x, w, op, args : x = task[id] /\ w = x.h /\ op = x.call[1] /\ args = x.call[2]
    OBVIOUS
  <2>2. Fields(x) /\ Holds(x, DOMAIN rc) /\ Faithful(x)
    BY <1>1, <1>2, <2>1 DEF Ids, TaskOK
  <2>3. x.pc \in {"add", "ok"} /\ w \in Edges(DOMAIN rc)
    BY <1>2, <2>1, <2>2 DEF Holds
  <2>4. Right(w, op, args)
    <3>1. CASE x.pc = "add"
      <4>1. Right(w, x.op, x.args)
        BY <2>1, <2>2, <3>1 DEF Faithful
      <4>2. Right(w, x.call[1], x.call[2])
        BY <1>1, <2>2, <2>3, <4>1, RightForCall
      <4> QED BY <2>1, <4>2
    <3>2. CASE x.pc = "ok"
      BY <2>1, <2>2, <3>2 DEF Faithful
    <3> QED BY <2>3, <3>1, <3>2
  <2>5. Value(w, p) \in BOOLEAN
    BY <1>1, <2>3, ValueType
  <2>6. IsCall(op, args)
    BY <2>1, <2>2 DEF Fields
  <2>7. Meaning(op, args, p) \in BOOLEAN
    BY <2>6, MeaningType
  <2>8. Value(w, p) <=> Meaning(op, args, p)
    BY <1>2, <2>4, Zenon DEF Right
  <2>9. Value(w, p) = Meaning(op, args, p)
    <3>1. PICK a, b : a = Value(w, p) /\ b = Meaning(op, args, p)
      OBVIOUS
    <3>2. a \in BOOLEAN /\ b \in BOOLEAN /\ (a <=> b)
      BY <2>5, <2>7, <2>8, <3>1
    <3>3. (a = TRUE \/ a = FALSE) /\ (b = TRUE \/ b = FALSE)
      BY <3>2
    <3>4. a = b
      BY <3>2, <3>3
    <3> QED BY <3>1, <3>4
  <2> QED BY <2>1, <2>9
<1> QED BY <1>2 DEF ResultRight

-----------------------------------------------------------------------------
(* Theorems.                                                               *)

\* The tasks, the counts and the tables stay well-formed: no count drops below zero
\* in drop_edge, the store never exceeds its capacity, and remaining_depth is never
\* decremented below zero.
THEOREM TypeCorrect == Spec => []TypeOK
<1>1. IInv => TypeOK
  BY TypeFromInvariant
<1> QED BY <1>1, Invariance, PTL

\* Every reference count is the number of parents, owners and holders, for any
\* number of clients and tasks, at every point of a call: the guards of reduce and of
\* the two recursive calls neither leak nor drop an edge twice, also when one call
\* of a join runs out of memory.
THEOREM CountsAreExact == Spec => []CountsExact
<1>1. IInv => CountsExact
  BY CountsFromInvariant
<1> QED BY <1>1, Invariance, PTL

\* The operands a task borrows, the edges it holds and the entries of the apply cache
\* refer to nodes in the tables, whenever the gc sweeps them.
THEOREM EdgesAreLive == Spec => []NoDangling
<1>1. IInv => NoDangling
  BY LiveFromInvariant
<1> QED BY <1>1, Invariance, PTL

\* The tables hold a reduced ordered diagram: reduce never inserts a node with equal
\* children, or one above a child, whatever the split depth.
THEOREM TablesReduced == Spec => []TableReduced
<1>1. IInv => TableReduced
  BY GoodFacts DEF TableReduced
<1> QED BY <1>1, Invariance, PTL

\* The result of apply_not, apply_bin or apply_ite is the function of its operands,
\* for every operator, all operands, every split depth and every schedule of the
\* workers, with cache hits of any other call.
THEOREM ResultsAreRight == Spec => []ResultRight
<1>1. IInv => ResultRight
  BY RightFromInvariant
<1> QED BY <1>1, Invariance, PTL

=============================================================================
