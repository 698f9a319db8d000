---------------------------- MODULE ArgumentsProofs ----------------------------
(***************************************************************************)
(* Parameters and arguments, for any names, values, number of parameters,  *)
(* commands and initial files: the net keeps its shape (TypeOK), a bound   *)
(* parameter has the value of its argument unless one of the named causes  *)
(* has led it astray (Follows), a load of the universe that succeeds       *)
(* leaves none astray (UniverseLoadRights), and what has been stored and   *)
(* is loaded again gives the stars the parameters they had                 *)
(* (StoredIsLoaded).                                                       *)
(*                                                                         *)
(* TypeOK and Follows are inductive together.  What takes the work is that *)
(* a command is one step with everything it loads and verifies.  The parts *)
(* follow the code from the inside out: propagate_arg, one parameter of    *)
(* KrnVerifyParams, its loop, the lines of a file, the file of a galaxy    *)
(* and that of the universe, and then the commands.  Each has a lemma that *)
(* says that it makes a net of a net and which parameters are apart from   *)
(* their arguments afterwards: of those that were apart before, of the     *)
(* block itself for a reason that StartsApart names, or of none.           *)
(*                                                                         *)
(* StoredIsLoaded needs a third invariant, StarsHave: a star in the tree   *)
(* has its parameter, and the model of the stars never changes.  With it   *)
(* nothing that load reads back from what store wrote is refused.  Store   *)
(* numbers the arguments by their rank in the table, so the proof takes a  *)
(* block in its new numbers through load: a star (StarReloaded), a galaxy  *)
(* (GalaxyReloaded), the blocks of the universe one by one (ReloadLoop),   *)
(* and KrnVerifyParams of the universe at the end (UniverseVerified).      *)
(*                                                                         *)
(* The loops are recursive functions of a number.  Their values are found  *)
(* by induction, with a set of numbers in the place of a predicate.        *)
(***************************************************************************)
EXTENDS Arguments, FiniteSetTheorems, SequenceTheorems, WellFoundedInduction, TLAPS

-----------------------------------------------------------------------------
(* Numbers. *)

(* A set of numbers has a least one. *)
LEMMA LeastNumber ==
    ASSUME NEW S \in SUBSET Nat, S # {}
    PROVE  \E x \in S : \A y \in S : x <= y
<1>1. IsWellFoundedOn({ss \in Nat \X Nat : ss[1] < ss[2]}, Nat)
  BY NatLessThanWellFounded DEF OpToRel
<1>2. PICK x \in S : \A y \in S : ~(<<y, x>> \in {ss \in Nat \X Nat : ss[1] < ss[2]})
  BY <1>1, WFMin
<1>3. \A y \in S : x <= y
  <2> SUFFICES ASSUME NEW y \in S PROVE x <= y
    OBVIOUS
  <2>1. <<y, x>> \in Nat \X Nat => ~(y < x)
    BY <1>2
  <2> QED
    BY <2>1
<1> QED
  BY <1>3

(* Induction over 0..N, as a fact about a set of numbers. *)
LEMMA AllUpTo ==
    ASSUME NEW N \in Nat, NEW T, 0 \in T, \A n \in 0..(N - 1) : n \in T => n + 1 \in T
    PROVE  0..N \subseteq T
<1> SUFFICES ASSUME ~(0..N \subseteq T) PROVE FALSE
  OBVIOUS
<1>1. (0..N) \ T \in SUBSET Nat /\ (0..N) \ T # {}
  OBVIOUS
<1>2. PICK m \in (0..N) \ T : \A k \in (0..N) \ T : m <= k
  <2>1. PICK S : S = (0..N) \ T
    OBVIOUS
  <2>2. \E x \in S : \A y \in S : x <= y
    BY <1>1, <2>1, LeastNumber
  <2> QED
    BY <2>1, <2>2
<1>3. m \in Nat /\ m # 0 /\ m <= N
  OBVIOUS
<1>4. m - 1 \in 0..(N - 1) /\ m - 1 \in 0..N /\ ~(m <= m - 1)
  BY <1>3
<1>5. m - 1 \in T
  BY <1>2, <1>4
<1>6. m - 1 + 1 \in T /\ m - 1 + 1 = m
  BY <1>3, <1>4, <1>5
<1> QED
  BY <1>6

-----------------------------------------------------------------------------
(* The places of the hierarchy. *)

Star == {StarIn(g) : g \in Galaxy}

LEMMA Indexes == MAX_PARAM \in Nat \ {0} /\ Index \subseteq Nat /\ 0 \in Index /\ Unbound \notin Index
BY ParameterAssumption DEF Index, Unbound

(* What Front, the prefixes and the paths come to in a hierarchy of this   *)
(* depth.                                                                  *)
LEMMA Pairs ==
    ASSUME NEW m, NEW s
    PROVE  /\ Append(<<m>>, s) = <<m, s>>
           /\ Append(<<>>, m) = <<m>>
           /\ Front(<<m>>) = <<>>
           /\ Front(<<m, s>>) = <<m>>
           /\ SubSeq(<<m>>, 1, 1) = <<m>>
           /\ SubSeq(<<m, s>>, 1, 1) = <<m>>
           /\ SubSeq(<<m, s>>, 1, 2) = <<m, s>>
<1>1. PICK S : S = {m, s}
  OBVIOUS
<1>2. <<m>> \in Seq(S) /\ <<m, s>> \in Seq(S) /\ <<>> \in Seq(S)
  BY <1>1
<1>3. Append(<<m>>, s) = <<m, s>>
  <2>1. PICK a : a = Append(<<m>>, s)
    OBVIOUS
  <2>2. a \in Seq(S) /\ Len(a) = 2 /\ a[1] = m /\ a[2] = s
    BY <1>1, <1>2, <2>1
  <2>3. PICK c : c = <<m, s>>
    OBVIOUS
  <2>4. c \in Seq(S) /\ Len(c) = 2 /\ c[1] = m /\ c[2] = s
    BY <1>1, <1>2, <2>3
  <2>5. Len(a) = Len(c) /\ \A i \in 1..Len(a) : a[i] = c[i]
    BY <2>2, <2>4
  <2>6. a = c
    BY <2>2, <2>4, <2>5, SeqEqual
  <2> QED
    BY <2>1, <2>3, <2>6
<1>4. Append(<<>>, m) = <<m>>
  <2>1. PICK a : a = Append(<<>>, m)
    OBVIOUS
  <2>2. a \in Seq(S) /\ Len(a) = 1 /\ a[1] = m
    BY <1>1, <1>2, <2>1
  <2> QED
    BY <1>2, <2>1, <2>2, SeqEqual
<1>5. Front(<<m>>) = <<>>
  BY DEF Front
<1>6. Front(<<m, s>>) = <<m>>
  <2>1. PICK b : b = SubSeq(<<m, s>>, 1, 1)
    OBVIOUS
  <2>2. \A i \in 1..1 : <<m, s>>[i] \in S
    BY <1>1
  <2>3. b \in Seq(S) /\ Len(b) = 1 /\ \A i \in 1..1 : b[i] = <<m, s>>[i]
    BY <2>1, <2>2, SubSeqProperties
  <2>4. b[1] = m
    BY <2>3
  <2>5. PICK c : c = <<m>>
    OBVIOUS
  <2>6. c \in Seq(S) /\ Len(c) = 1 /\ c[1] = m
    BY <1>1, <1>2, <2>5
  <2>7. Len(b) = Len(c) /\ \A i \in 1..Len(b) : b[i] = c[i]
    BY <2>3, <2>4, <2>6
  <2>8. b = c
    BY <2>3, <2>6, <2>7, SeqEqual
  <2>9. Front(<<m, s>>) = SubSeq(<<m, s>>, 1, 1)
    BY DEF Front
  <2> QED
    BY <2>1, <2>5, <2>8, <2>9
<1>7. SubSeq(<<m, s>>, 1, 1) = <<m>>
  BY <1>6 DEF Front
<1>8. SubSeq(<<m>>, 1, 1) = <<m>>
  <2>1. PICK c : c = <<m>>
    OBVIOUS
  <2>2. c \in Seq(S) /\ Len(c) = 1
    BY <1>2, <2>1
  <2>3. SubSeq(c, 1, Len(c)) = c
    BY <2>2, SubSeqFull
  <2> QED
    BY <2>1, <2>2, <2>3
<1>9. SubSeq(<<m, s>>, 1, 2) = <<m, s>>
  <2>1. PICK c : c = <<m, s>>
    OBVIOUS
  <2>2. c \in Seq(S) /\ Len(c) = 2
    BY <1>2, <2>1
  <2>3. SubSeq(c, 1, Len(c)) = c
    BY <2>2, SubSeqFull
  <2> QED
    BY <2>1, <2>2, <2>3
<1> QED
  BY <1>3, <1>4, <1>5, <1>6, <1>7, <1>8, <1>9

LEMMA Paths ==
    /\ Universe \in Blocks /\ Universe \notin Galaxy /\ Front(Universe) = Universe
    /\ ModelOf(Universe) = 0
    /\ \A g \in Galaxy : /\ g \in Blocks /\ StarIn(g) \in Blocks
                         /\ StarIn(g) \notin Galaxy /\ StarIn(g) # Universe
                         /\ Front(g) = Universe /\ Front(StarIn(g)) = g
                         /\ ModelOf(g) = 1 /\ ModelOf(StarIn(g)) = 2
<1>1. Front(Universe) = Universe /\ ModelOf(Universe) = 0
  BY DEF Front, Universe, ModelOf
<1>2. ASSUME NEW g \in Galaxy
      PROVE  /\ g \in Blocks /\ StarIn(g) \in Blocks
             /\ StarIn(g) \notin Galaxy /\ StarIn(g) # Universe
             /\ Front(g) = Universe /\ Front(StarIn(g)) = g
             /\ ModelOf(g) = 1 /\ ModelOf(StarIn(g)) = 2
  <2>1. PICK m \in Names : g = <<m>>
    BY DEF Galaxy
  <2>2. StarIn(g) = <<m, starName>>
    BY <2>1, Pairs DEF StarIn
  <2>3. Front(g) = <<>> /\ Front(StarIn(g)) = g
    BY <2>1, <2>2, Pairs
  <2>4. Len(g) = 1 /\ Len(StarIn(g)) = 2
    BY <2>1, <2>2
  <2>5. StarIn(g) # <<>> /\ \A h \in Names : StarIn(g) # <<h>>
    BY <2>2
  <2> QED
    BY <2>3, <2>4, <2>5 DEF Blocks, Galaxy, Universe, ModelOf
<1>3. Universe \notin Galaxy
  BY DEF Universe, Galaxy
<1> QED
  BY <1>1, <1>2, <1>3 DEF Blocks

LEMMA BlockKinds ==
    /\ Blocks = {Universe} \cup Galaxy \cup Star
    /\ Star = {b \in Blocks : Front(b) \in Galaxy}
    /\ \A b \in Star : b = StarIn(Front(b)) /\ ModelOf(b) = 2 /\ b \notin Galaxy /\ b # Universe
    /\ \A b \in Blocks : Front(b) \in {Universe} \cup Galaxy /\ ModelOf(b) \in Models
BY Paths DEF Blocks, Star, Models

LEMMA PathForms ==
    ASSUME NEW b \in Blocks
    PROVE  \/ b = Universe
           \/ \E h \in Names : b = <<h>>
           \/ \E h \in Names : b = <<h, starName>>
<1>1. CASE b \in Galaxy
  BY <1>1 DEF Galaxy
<1>2. CASE b \in Star
  <2>1. PICK h \in Names : b = StarIn(<<h>>)
    BY <1>2 DEF Star, Galaxy
  <2>2. b = <<h, starName>>
    BY <2>1, Pairs DEF StarIn
  <2> QED
    BY <2>2
<1> QED
  BY <1>1, <1>2, BlockKinds

LEMMA PrefixOf ==
    ASSUME NEW a \in Blocks, NEW b \in Blocks
    PROVE  IsPrefix(a, b) <=> a = b \/ (b # Universe /\ (a = Universe \/ a = Front(b)))
<1>1. CASE a = Universe
  <2>1. Len(a) = 0 /\ SubSeq(b, 1, 0) = <<>> /\ SubSeq(a, 1, 0) = <<>>
    BY <1>1, SubSeqEmpty DEF Universe
  <2>2. Len(b) \in Nat
    BY Paths, BlockKinds DEF ModelOf, Models
  <2> QED
    BY <1>1, <2>1, <2>2 DEF IsPrefix
<1>2. ASSUME NEW m \in Names, a = <<m>>
      PROVE  IsPrefix(a, b) <=> a = b \/ (b # Universe /\ (a = Universe \/ a = Front(b)))
  <2>1. Len(a) = 1 /\ a # Universe /\ SubSeq(a, 1, 1) = a
    BY <1>2, Pairs DEF Universe
  <2>2. CASE b = Universe
    BY <2>1, <2>2 DEF IsPrefix, Universe
  <2>3. ASSUME NEW h \in Names, b = <<h>>
        PROVE  IsPrefix(a, b) <=> a = b \/ (b # Universe /\ (a = Universe \/ a = Front(b)))
    <3>1. Len(b) = 1 /\ SubSeq(b, 1, 1) = b /\ Front(b) = Universe
      BY <2>3, Pairs DEF Universe
    <3> QED
      BY <2>1, <3>1 DEF IsPrefix
  <2>4. ASSUME NEW h \in Names, b = <<h, starName>>
        PROVE  IsPrefix(a, b) <=> a = b \/ (b # Universe /\ (a = Universe \/ a = Front(b)))
    <3>1. Len(b) = 2 /\ Front(b) = <<h>> /\ Front(b) = SubSeq(b, 1, 1) /\ b # Universe
      BY <2>4, Pairs DEF Universe
    <3> QED
      BY <2>1, <3>1 DEF IsPrefix
  <2> QED
    BY <2>2, <2>3, <2>4, PathForms
<1>3. ASSUME NEW m \in Names, a = <<m, starName>>
      PROVE  IsPrefix(a, b) <=> a = b \/ (b # Universe /\ (a = Universe \/ a = Front(b)))
  <2>1. Len(a) = 2 /\ a # Universe /\ a \in Star
    BY <1>3, Pairs DEF Universe, Star, Galaxy, StarIn
  <2>2. a # Front(b)
    BY <2>1, BlockKinds
  <2>3. CASE b \in Star
    <3>1. PICK h \in Names : b = <<h, starName>>
      BY <2>3, Pairs DEF Star, Galaxy, StarIn
    <3>2. SubSeq(b, 1, 2) = b /\ SubSeq(a, 1, 2) = a /\ Len(b) = 2
      BY <1>3, <3>1, Pairs
    <3> QED
      BY <2>1, <2>2, <3>2 DEF IsPrefix
  <2>4. CASE b \notin Star
    <3>1. Len(b) \in 0..1
      BY <2>4, BlockKinds, Paths DEF ModelOf
    <3> QED
      BY <2>1, <2>2, <2>4, <3>1 DEF IsPrefix
  <2> QED
    BY <2>3, <2>4
<1> QED
  BY <1>1, <1>2, <1>3, PathForms

LEMMA StrictPrefixOf ==
    ASSUME NEW a \in Blocks, NEW b \in Blocks
    PROVE  IsStrictPrefix(a, b) <=> b # Universe /\ (a = Universe \/ a = Front(b))
<1>1. a # Universe => a # Front(a)
  BY Paths, BlockKinds
<1> QED
  BY <1>1, PrefixOf DEF IsStrictPrefix

-----------------------------------------------------------------------------
(* Nets and their parameters. *)

LEMMA ParamFacts ==
    /\ Default \subseteq Param /\ NULL \notin Param
    /\ \A t \in Types, v \in Values : Set(t, v) \in Default
    /\ \A p \in Param : p.arg \in Index \cup {Unbound} /\ p.val \in Values /\ p.type \in Types \cup {"arg"}
    /\ \A p \in Default : p.arg = Unbound /\ p.type \in Types /\ p.val \in Values /\ ~IsBound(p) /\ p # NULL
BY ParameterAssumption DEF Default, Param, Set, Types, IsBound

LEMMA CheckedParam ==
    ASSUME NEW p \in Param \cup {NULL}, NEW q \in Param \cup {NULL}, q = NULL \/ q.type \in Types
    PROVE  /\ KrnParamCheck(p, q) \in Param \cup {NULL}
           /\ KrnParamCheck(p, q) = NULL <=> q = NULL
           /\ q # NULL => KrnParamCheck(p, q).type = q.type
           /\ q # NULL /\ p # NULL /\ p.type = q.type => KrnParamCheck(p, q) = p
           /\ q # NULL /\ ~(p # NULL /\ p.type = q.type) =>
                KrnParamCheck(p, q) = Set(q.type, q.val) /\ KrnParamCheck(p, q) \in Default
BY ParamFacts DEF KrnParamCheck, Set

LEMMA CheckedDefault ==
    ASSUME NEW p \in Default \cup {NULL}, NEW q \in Default \cup {NULL}
    PROVE  KrnParamCheck(p, q) \in Default \cup {NULL}
BY ParamFacts DEF KrnParamCheck

LEMMA NetFields ==
    ASSUME NEW n, IsNet(n)
    PROVE  /\ n \in [kids : [Blocks -> Seq(Blocks \ {Universe})],
                     model : [Models -> [Index -> Default \cup {NULL}]],
                     flag : [Models -> BOOLEAN],
                     param : [Blocks -> Table]]
           /\ \A b \in Blocks : /\ n.kids[b] \in Seq(Blocks \ {Universe})
                                /\ n.param[b] \in [Index -> Param \cup {NULL}]
                                /\ IsInjective(n.kids[b])
                                /\ \A c \in Range(n.kids[b]) : c \in Blocks /\ c # Universe /\ Front(c) = b
                                /\ b \notin Present(n) => n.kids[b] = <<>> /\ n.param[b] = None
           /\ \A b \in Blocks, i \in Index : n.param[b][i] \in Param \cup {NULL}
           /\ \A m \in Models, i \in Index : n.model[m][i] \in Default \cup {NULL}
           /\ \A m \in Models : n.flag[m] \in BOOLEAN
           /\ \A i \in Index : ~IsBound(n.param[Universe][i])
<1>1. /\ n.kids \in [Blocks -> Seq(Blocks \ {Universe})]
      /\ n.param \in [Blocks -> [Index -> Param \cup {NULL}]]
      /\ n.model \in [Models -> [Index -> Default \cup {NULL}]]
      /\ n.flag \in [Models -> BOOLEAN]
  BY DEF IsNet, Table
<1>2. ASSUME NEW b \in Blocks, NEW c \in Range(n.kids[b])
      PROVE  c \in Blocks /\ c # Universe /\ Front(c) = b
  <2>1. n.kids[b] \in Seq(Blocks \ {Universe})
    BY <1>1
  <2>2. c \in Blocks \ {Universe}
    BY <2>1 DEF Range
  <2> QED
    BY <2>2 DEF IsNet
<1> QED
  BY <1>1, <1>2 DEF IsNet

LEMMA NetOfParams ==
    ASSUME NEW n, IsNet(n), NEW m,
           m \in [kids : [Blocks -> Seq(Blocks \ {Universe})],
                  model : [Models -> [Index -> Default \cup {NULL}]],
                  flag : [Models -> BOOLEAN],
                  param : [Blocks -> Table]],
           m.kids = n.kids,
           \A i \in Index : ~IsBound(m.param[Universe][i]),
           \A b \in Blocks : b \notin Present(n) => m.param[b] = None
    PROVE  IsNet(m)
<1>1. Present(m) = Present(n)
  BY DEF Present
<1> QED
  BY <1>1 DEF IsNet

LEMMA BindingFacts ==
    ASSUME NEW n, IsNet(n), NEW x \in Bindings(n)
    PROVE  /\ x[1] \in Blocks /\ x[1] # Universe /\ x[2] \in Index /\ x = <<x[1], x[2]>>
           /\ n.param[x[1]][x[2]] \in Param /\ n.param[x[1]][x[2]].arg \in Index
           /\ x[1] \in Present(n) /\ Front(x[1]) \in {Universe} \cup Galaxy
           /\ Front(x[1]) \in Blocks
<1>1. x[1] \in Blocks /\ x[1] # Universe /\ x[2] \in Index /\ x = <<x[1], x[2]>> /\ IsBound(n.param[x[1]][x[2]])
  BY DEF Bindings
<1>2. n.param[x[1]][x[2]] \in Param
  BY <1>1, NetFields DEF IsBound
<1>3. x[1] \in Present(n)
  <2>1. None[x[2]] = NULL
    BY <1>1 DEF None
  <2> QED
    BY <1>1, <2>1, NetFields DEF IsBound
<1> QED
  BY <1>1, <1>2, <1>3, ParamFacts, BlockKinds, Paths DEF IsBound

LEMMA BoundToFacts ==
    ASSUME NEW n, IsNet(n), NEW g \in Blocks, NEW k \in Index
    PROVE  BoundTo(n, g, k) = {x \in Bindings(n) : Front(x[1]) = g /\ n.param[x[1]][x[2]].arg = k}
<1>1. ASSUME NEW x \in BoundTo(n, g, k)
      PROVE  x \in Bindings(n) /\ Front(x[1]) = g /\ n.param[x[1]][x[2]].arg = k
  <2>1. x \in Range(n.kids[g]) \X Index /\ IsBound(n.param[x[1]][x[2]]) /\ n.param[x[1]][x[2]].arg = k
    BY DEF BoundTo
  <2>2. x[1] \in Range(n.kids[g]) /\ x[2] \in Index /\ x = <<x[1], x[2]>>
    BY <2>1
  <2>3. x[1] \in Blocks /\ x[1] # Universe /\ Front(x[1]) = g
    BY <2>2, NetFields
  <2> QED
    BY <2>1, <2>2, <2>3 DEF Bindings
<1>2. ASSUME NEW x \in Bindings(n), Front(x[1]) = g, n.param[x[1]][x[2]].arg = k
      PROVE  x \in BoundTo(n, g, k)
  <2>1. x[1] \in Range(n.kids[g]) /\ x[2] \in Index /\ x = <<x[1], x[2]>>
    BY <1>2, BindingFacts DEF Present
  <2>2. IsBound(n.param[x[1]][x[2]])
    BY DEF Bindings
  <2> QED
    BY <1>2, <2>1, <2>2 DEF BoundTo
<1> QED
  BY <1>1, <1>2

LEMMA HearersBound ==
    ASSUME NEW n, IsNet(n), NEW g \in Blocks, NEW k \in Index
    PROVE  /\ Reached(n, g, k) \subseteq BoundTo(n, g, k)
           /\ Hearers(n, g, k) \subseteq Bindings(n)
           /\ \A x \in Hearers(n, g, k) :
                 IsStrictPrefix(g, x[1]) /\ n.param[x[1]][x[2]] \in Param
<1>1. \A h \in Blocks, j \in Index : Reached(n, h, j) \subseteq BoundTo(n, h, j)
  BY DEF Reached
<1>2. ASSUME NEW x \in Hearers(n, g, k)
      PROVE  /\ x \in Bindings(n)
             /\ Front(x[1]) = g \/ Front(Front(x[1])) = g
  <2>1. CASE x \in Reached(n, g, k)
    BY <1>1, <2>1, BoundToFacts
  <2>2. ASSUME NEW y \in Reached(n, g, k), x \in Reached(n, y[1], y[2])
        PROVE  x \in Bindings(n) /\ Front(Front(x[1])) = g
    <3>1. y \in Bindings(n) /\ Front(y[1]) = g
      BY <1>1, <2>2, BoundToFacts
    <3>2. y[1] \in Blocks /\ y[2] \in Index
      BY <3>1, BindingFacts
    <3>3. x \in Bindings(n) /\ Front(x[1]) = y[1]
      BY <1>1, <2>2, <3>2, BoundToFacts
    <3> QED
      BY <3>1, <3>3
  <2> QED
    BY <2>1, <2>2 DEF Hearers
<1>3. ASSUME NEW x \in Hearers(n, g, k)
      PROVE  IsStrictPrefix(g, x[1]) /\ n.param[x[1]][x[2]] \in Param
  <2>1. x \in Bindings(n) /\ (Front(x[1]) = g \/ Front(Front(x[1])) = g)
    BY <1>2
  <2>2. x[1] \in Blocks /\ x[1] # Universe /\ n.param[x[1]][x[2]] \in Param
    BY <2>1, BindingFacts
  <2>3. g = Universe \/ g = Front(x[1])
    BY <2>1, <2>2, BlockKinds, Paths
  <2> QED
    BY <2>2, <2>3, StrictPrefixOf
<1> QED
  BY <1>1, <1>2, <1>3

LEMMA NetParts ==
    ASSUME NEW n, IsNet(n)
    PROVE  /\ n = [kids |-> n.kids, model |-> n.model, flag |-> n.flag, param |-> n.param]
           /\ n.kids \in [Blocks -> Seq(Blocks \ {Universe})]
           /\ n.model \in [Models -> [Index -> Default \cup {NULL}]]
           /\ n.flag \in [Models -> BOOLEAN]
           /\ n.param \in [Blocks -> Table]
BY DEF IsNet

LEMMA ParamType ==
    ASSUME NEW n, IsNet(n)
    PROVE  /\ \A b \in Blocks, i \in Index : n.param[b][i] \in Param \cup {NULL}
           /\ \A i \in Index : ~IsBound(n.param[Universe][i])
BY NetFields

LEMMA OtherParams ==
    ASSUME NEW n, IsNet(n), NEW P \in [Blocks -> Table],
           \A i \in Index : ~IsBound(P[Universe][i]),
           \A b \in Blocks : b \notin Present(n) => P[b] = None,
           NEW m, m = [n EXCEPT !.param = P]
    PROVE  /\ m.kids = n.kids /\ m.model = n.model /\ m.flag = n.flag /\ m.param = P
           /\ IsNet(m)
<1>1. m = [kids |-> n.kids, model |-> n.model, flag |-> n.flag, param |-> P]
  <2>1. PICK K, M, F, Q : n = [kids |-> K, model |-> M, flag |-> F, param |-> Q]
    BY NetParts
  <2>2. m = [kids |-> K, model |-> M, flag |-> F, param |-> P]
    BY <2>1
  <2> QED
    BY <2>1, <2>2
<1>2. m.kids = n.kids /\ m.model = n.model /\ m.flag = n.flag /\ m.param = P
  BY <1>1
<1>3. m \in [kids : [Blocks -> Seq(Blocks \ {Universe})],
             model : [Models -> [Index -> Default \cup {NULL}]],
             flag : [Models -> BOOLEAN],
             param : [Blocks -> Table]]
  BY <1>1, NetParts
<1> QED
  BY <1>2, <1>3, NetOfParams

TurnedFrom(n, m, X) ==
    \A b \in Blocks, i \in Index :
        m.param[b][i] = IF <<b, i>> \in X THEN [n.param[b][i] EXCEPT !.arg = Unbound]
                        ELSE n.param[b][i]

LEMMA TurnOffFacts ==
    ASSUME NEW n, IsNet(n), NEW X, X \subseteq Bindings(n), NEW m, m = TurnOff(n, X)
    PROVE  /\ m.kids = n.kids /\ m.model = n.model /\ m.flag = n.flag
           /\ TurnedFrom(n, m, X)
           /\ IsNet(m)
<1>1. PICK P : P = [b \in Blocks |-> [i \in Index |->
            IF <<b, i>> \in X THEN [n.param[b][i] EXCEPT !.arg = Unbound] ELSE n.param[b][i]]]
  OBVIOUS
<1>2. ASSUME NEW b \in Blocks, NEW i \in Index
      PROVE  P[b][i] = IF <<b, i>> \in X THEN [n.param[b][i] EXCEPT !.arg = Unbound]
                       ELSE n.param[b][i]
  BY <1>1
<1>3. ASSUME NEW b \in Blocks, NEW i \in Index
      PROVE  P[b][i] \in Param \cup {NULL}
  <2>1. CASE <<b, i>> \in X
    <3>1. n.param[b][i] \in Param
      BY <2>1, BindingFacts
    <3>2. [n.param[b][i] EXCEPT !.arg = Unbound] \in Param
      BY <3>1 DEF Param
    <3> QED
      BY <1>2, <2>1, <3>2
  <2>2. CASE <<b, i>> \notin X
    BY <1>2, <2>2, ParamType
  <2> QED
    BY <2>1, <2>2
<1>4. P \in [Blocks -> Table]
  BY <1>1, <1>3 DEF Table
<1>5. ASSUME NEW i \in Index
      PROVE  ~IsBound(P[Universe][i])
  <2>1. <<Universe, i>> \notin X
    BY DEF Bindings
  <2>2. Universe \in Blocks
    BY Paths
  <2> QED
    BY <1>2, <2>1, <2>2, ParamType
<1>6. ASSUME NEW b \in Blocks, b \notin Present(n)
      PROVE  P[b] = None
  <2>1. n.param[b] = None
    BY <1>6, NetFields
  <2>2. \A i \in Index : <<b, i>> \notin X
    BY <1>6, BindingFacts
  <2>3. P[b] = [i \in Index |-> n.param[b][i]]
    BY <1>1, <2>2
  <2> QED
    BY <2>1, <2>3 DEF None
<1>7. m = [n EXCEPT !.param = P]
  BY <1>1 DEF TurnOff
<1> QED
  BY <1>2, <1>4, <1>5, <1>6, <1>7, OtherParams DEF TurnedFrom

LEMMA CopyFacts ==
    ASSUME NEW n, IsNet(n), NEW X, X \subseteq Bindings(n), NEW v \in Values, NEW m, m = Copy(n, X, v)
    PROVE  /\ m.kids = n.kids /\ m.model = n.model /\ m.flag = n.flag
           /\ \A b \in Blocks, i \in Index :
                 m.param[b][i] = IF <<b, i>> \in X THEN [n.param[b][i] EXCEPT !.val = v]
                                 ELSE n.param[b][i]
           /\ IsNet(m)
<1>1. PICK P : P = [b \in Blocks |-> [i \in Index |->
            IF <<b, i>> \in X THEN [n.param[b][i] EXCEPT !.val = v] ELSE n.param[b][i]]]
  OBVIOUS
<1>2. ASSUME NEW b \in Blocks, NEW i \in Index
      PROVE  P[b][i] = IF <<b, i>> \in X THEN [n.param[b][i] EXCEPT !.val = v]
                       ELSE n.param[b][i]
  BY <1>1
<1>3. ASSUME NEW b \in Blocks, NEW i \in Index
      PROVE  P[b][i] \in Param \cup {NULL}
  <2>1. CASE <<b, i>> \in X
    <3>1. n.param[b][i] \in Param
      BY <2>1, BindingFacts
    <3>2. [n.param[b][i] EXCEPT !.val = v] \in Param
      BY <3>1 DEF Param
    <3> QED
      BY <1>2, <2>1, <3>2
  <2>2. CASE <<b, i>> \notin X
    BY <1>2, <2>2, ParamType
  <2> QED
    BY <2>1, <2>2
<1>4. P \in [Blocks -> Table]
  BY <1>1, <1>3 DEF Table
<1>5. ASSUME NEW i \in Index
      PROVE  ~IsBound(P[Universe][i])
  <2>1. <<Universe, i>> \notin X
    BY DEF Bindings
  <2>2. Universe \in Blocks
    BY Paths
  <2> QED
    BY <1>2, <2>1, <2>2, ParamType
<1>6. ASSUME NEW b \in Blocks, b \notin Present(n)
      PROVE  P[b] = None
  <2>1. n.param[b] = None
    BY <1>6, NetFields
  <2>2. \A i \in Index : <<b, i>> \notin X
    BY <1>6, BindingFacts
  <2>3. P[b] = [i \in Index |-> n.param[b][i]]
    BY <1>1, <2>2
  <2> QED
    BY <2>1, <2>3 DEF None
<1>7. m = [n EXCEPT !.param = P]
  BY <1>1 DEF Copy
<1> QED
  BY <1>2, <1>4, <1>5, <1>6, <1>7, OtherParams

(* What propagate_arg changes: values, or the argument numbers of those    *)
(* that are turned off, in what is below the galaxy.                       *)
SameShape(n, m) == m.kids = n.kids /\ m.model = n.model /\ m.flag = n.flag

Propagated(n, m, g, k) ==
    \A b \in Blocks, i \in Index :
        /\ m.param[b][i] = NULL <=> n.param[b][i] = NULL
        /\ m.param[b][i] # NULL => m.param[b][i].type = n.param[b][i].type
        /\ ~IsStrictPrefix(g, b) => m.param[b][i] = n.param[b][i]
        /\ n.param[g][k] = NULL /\ m.param[b][i] # NULL => m.param[b][i].val = n.param[b][i].val

TurnedOff(n, m, g, k) ==
    \A x \in Bindings(m) :
        /\ x \in Bindings(n) /\ x \notin BoundTo(n, g, k)
        /\ m.param[x[1]][x[2]] = n.param[x[1]][x[2]]

Copied(n, m, g, k) ==
    \A b \in Blocks, i \in Index :
        /\ <<b, i>> \notin Hearers(n, g, k) => m.param[b][i] = n.param[b][i]
        /\ <<b, i>> \in Hearers(n, g, k) => m.param[b][i].val = n.param[g][k].val
        /\ m.param[b][i] # NULL => m.param[b][i].arg = n.param[b][i].arg

LEMMA PropagateFacts ==
    ASSUME NEW n, IsNet(n), NEW g \in Blocks, NEW k \in Index, NEW m, m = propagate_arg(n, g, k)
    PROVE  /\ IsNet(m)
           /\ SameShape(n, m)
           /\ Propagated(n, m, g, k)
           /\ n.param[g][k] = NULL => TurnedOff(n, m, g, k)
           /\ n.param[g][k] # NULL => Copied(n, m, g, k)
<1>1. CASE n.param[g][k] = NULL
  <2>1. m = TurnOff(n, BoundTo(n, g, k))
    BY <1>1 DEF propagate_arg
  <2>2. PICK X : X = BoundTo(n, g, k)
    OBVIOUS
  <2>3. X \subseteq Bindings(n)
    BY <2>2, BoundToFacts
  <2>4. /\ m.kids = n.kids /\ m.model = n.model /\ m.flag = n.flag
        /\ \A b \in Blocks, i \in Index :
              m.param[b][i] = IF <<b, i>> \in X THEN [n.param[b][i] EXCEPT !.arg = Unbound]
                              ELSE n.param[b][i]
        /\ IsNet(m)
    BY <2>1, <2>2, <2>3, TurnOffFacts DEF TurnedFrom
  <2>5. ASSUME NEW b \in Blocks, NEW i \in Index, <<b, i>> \in X
        PROVE  /\ IsStrictPrefix(g, b) /\ n.param[b][i] \in Param
               /\ m.param[b][i] \in Param /\ m.param[b][i].arg = Unbound
               /\ m.param[b][i].type = n.param[b][i].type /\ m.param[b][i].val = n.param[b][i].val
    <3>1. n.param[b][i] \in Param /\ Front(b) = g /\ b # Universe
      BY <2>2, <2>3, <2>5, BindingFacts, BoundToFacts
    <3>2. m.param[b][i] = [n.param[b][i] EXCEPT !.arg = Unbound]
      BY <2>4, <2>5
    <3>3. IsStrictPrefix(g, b)
      BY <3>1, StrictPrefixOf
    <3> QED
      BY <3>1, <3>2, <3>3 DEF Param
  <2>6. ASSUME NEW b \in Blocks, NEW i \in Index, <<b, i>> \notin X
        PROVE  m.param[b][i] = n.param[b][i]
    BY <2>4, <2>6
  <2>7. ASSUME NEW x \in Bindings(m)
        PROVE  x \in Bindings(n) /\ x \notin BoundTo(n, g, k) /\ m.param[x[1]][x[2]] = n.param[x[1]][x[2]]
    <3>1. x[1] \in Blocks /\ x[1] # Universe /\ x[2] \in Index /\ x = <<x[1], x[2]>> /\ IsBound(m.param[x[1]][x[2]])
      BY DEF Bindings
    <3>2. x \notin X
      BY <2>5, <3>1 DEF IsBound
    <3>3. m.param[x[1]][x[2]] = n.param[x[1]][x[2]]
      BY <2>6, <3>1, <3>2
    <3> QED
      BY <2>2, <3>1, <3>2, <3>3 DEF Bindings
  <2>8. ASSUME NEW b \in Blocks, NEW i \in Index
        PROVE  /\ m.param[b][i] = NULL <=> n.param[b][i] = NULL
               /\ m.param[b][i] # NULL => m.param[b][i].type = n.param[b][i].type
               /\ ~IsStrictPrefix(g, b) => m.param[b][i] = n.param[b][i]
               /\ m.param[b][i] # NULL => m.param[b][i].val = n.param[b][i].val
    BY <2>5, <2>6, ParamFacts
  <2> QED
    BY <1>1, <2>4, <2>7, <2>8 DEF SameShape, Propagated, TurnedOff
<1>2. CASE n.param[g][k] # NULL
  <2>1. m = Copy(n, Hearers(n, g, k), n.param[g][k].val)
    BY <1>2 DEF propagate_arg
  <2>2. PICK X : X = Hearers(n, g, k)
    OBVIOUS
  <2>3. X \subseteq Bindings(n)
    BY <2>2, HearersBound
  <2>4. PICK v : v = n.param[g][k].val
    OBVIOUS
  <2>5. v \in Values
    BY <1>2, <2>4, ParamType, ParamFacts
  <2>6. m = Copy(n, X, v)
    BY <2>1, <2>2, <2>4
  <2>7. /\ m.kids = n.kids /\ m.model = n.model /\ m.flag = n.flag
        /\ \A b \in Blocks, i \in Index :
              m.param[b][i] = IF <<b, i>> \in X THEN [n.param[b][i] EXCEPT !.val = v]
                              ELSE n.param[b][i]
        /\ IsNet(m)
    BY <2>3, <2>5, <2>6, CopyFacts
  <2>8. ASSUME NEW b \in Blocks, NEW i \in Index, <<b, i>> \in X
        PROVE  /\ IsStrictPrefix(g, b) /\ n.param[b][i] \in Param
               /\ m.param[b][i] \in Param /\ m.param[b][i].arg = n.param[b][i].arg
               /\ m.param[b][i].type = n.param[b][i].type /\ m.param[b][i].val = v
    <3>1. n.param[b][i] \in Param /\ IsStrictPrefix(g, b)
      BY <2>2, <2>8, HearersBound
    <3>2. m.param[b][i] = [n.param[b][i] EXCEPT !.val = v]
      BY <2>7, <2>8
    <3> QED
      BY <2>5, <3>1, <3>2 DEF Param
  <2>9. ASSUME NEW b \in Blocks, NEW i \in Index, <<b, i>> \notin X
        PROVE  m.param[b][i] = n.param[b][i]
    BY <2>7, <2>9
  <2>10. ASSUME NEW b \in Blocks, NEW i \in Index
         PROVE  /\ m.param[b][i] = NULL <=> n.param[b][i] = NULL
                /\ m.param[b][i] # NULL => m.param[b][i].type = n.param[b][i].type
                /\ ~IsStrictPrefix(g, b) => m.param[b][i] = n.param[b][i]
                /\ m.param[b][i] # NULL => m.param[b][i].arg = n.param[b][i].arg
    BY <2>8, <2>9, ParamFacts
  <2> QED
    BY <1>2, <2>2, <2>4, <2>7, <2>8, <2>9, <2>10 DEF SameShape, Propagated, Copied
<1> QED
  BY <1>1, <1>2

(* propagate_arg reaches the same parameters before and after. *)
SameBindings(n, m) ==
    /\ m.kids = n.kids
    /\ \A b \in Blocks, i \in Index :
          /\ m.param[b][i] = NULL <=> n.param[b][i] = NULL
          /\ m.param[b][i] # NULL => /\ m.param[b][i].type = n.param[b][i].type
                                     /\ m.param[b][i].arg = n.param[b][i].arg

LEMMA ReachedSame ==
    ASSUME NEW n, NEW m, IsNet(n), IsNet(m), SameBindings(n, m), NEW g \in Blocks, NEW k \in Index
    PROVE  Reached(m, g, k) = Reached(n, g, k)
<1>0. /\ m.kids = n.kids
      /\ \A b \in Blocks, i \in Index :
            /\ m.param[b][i] = NULL <=> n.param[b][i] = NULL
            /\ m.param[b][i] # NULL => /\ m.param[b][i].type = n.param[b][i].type
                                       /\ m.param[b][i].arg = n.param[b][i].arg
  BY DEF SameBindings
<1>1. BoundTo(m, g, k) = BoundTo(n, g, k)
  <2>1. \A x \in Range(n.kids[g]) \X Index : x[1] \in Blocks /\ x[2] \in Index
    BY NetFields
  <2> QED
    BY <1>0, <2>1 DEF BoundTo, IsBound
<1>2. \A y \in BoundTo(n, g, k) : m.param[y[1]][y[2]].type = n.param[y[1]][y[2]].type
  BY <1>0, BoundToFacts, BindingFacts, ParamFacts
<1>3. \A x, y : NoLater(m, g, y, x) <=> NoLater(n, g, y, x)
  BY <1>0 DEF NoLater
<1> QED
  BY <1>1, <1>2, <1>3 DEF Reached

(* After propagate_arg the parameters that refer to the argument have its  *)
(* value, unless they were not reached; no other goes astray.              *)
LEMMA PropagateApart ==
    ASSUME NEW n, IsNet(n), NEW g \in Blocks, NEW k \in Index, NEW m, m = propagate_arg(n, g, k),
           NEW x \in Apart(m)
    PROVE  \/ x \in Apart(n) /\ x \notin BoundTo(n, g, k)
           \/ n.param[g][k] # NULL /\ x \in Unreached(m) /\ IsStrictPrefix(g, x[1])
<1>1. /\ IsNet(m) /\ m.kids = n.kids
      /\ \A b \in Blocks, i \in Index :
            /\ m.param[b][i] = NULL <=> n.param[b][i] = NULL
            /\ m.param[b][i] # NULL => m.param[b][i].type = n.param[b][i].type
            /\ ~IsStrictPrefix(g, b) => m.param[b][i] = n.param[b][i]
            /\ n.param[g][k] = NULL /\ m.param[b][i] # NULL => m.param[b][i].val = n.param[b][i].val
  <2>1. SameShape(n, m) /\ Propagated(n, m, g, k) /\ IsNet(m)
    BY PropagateFacts
  <2> QED
    BY <2>1 DEF SameShape, Propagated
<1>2. /\ x \in Bindings(m)
      /\ Given(m, x) # NULL /\ Given(m, x).type = m.param[x[1]][x[2]].type
      /\ Given(m, x).val # m.param[x[1]][x[2]].val
  BY DEF Apart
<1>3. PICK h, j : h = Front(x[1]) /\ j = m.param[x[1]][x[2]].arg
  OBVIOUS
<1>4. /\ x[1] \in Blocks /\ x[1] # Universe /\ x[2] \in Index /\ x = <<x[1], x[2]>>
      /\ h \in Blocks /\ h \in {Universe} \cup Galaxy /\ j \in Index /\ m.param[x[1]][x[2]] # NULL
  BY <1>1, <1>2, <1>3, BindingFacts, ParamFacts
<1>5. Given(m, x) = m.param[h][j]
  BY <1>3 DEF Given
<1>6. CASE n.param[g][k] = NULL
  <2>1. x \in Bindings(n) /\ x \notin BoundTo(n, g, k) /\ m.param[x[1]][x[2]] = n.param[x[1]][x[2]]
    <3>1. TurnedOff(n, m, g, k)
      BY <1>6, PropagateFacts
    <3> QED
      BY <1>2, <3>1 DEF TurnedOff
  <2>2. Given(n, x) = n.param[h][j]
    BY <1>3, <2>1 DEF Given
  <2>3. n.param[h][j] # NULL /\ n.param[h][j].type = m.param[h][j].type /\ n.param[h][j].val = m.param[h][j].val
    BY <1>1, <1>2, <1>4, <1>5, <1>6
  <2> QED
    BY <1>2, <1>5, <2>1, <2>2, <2>3 DEF Apart
<1>7. CASE n.param[g][k] # NULL
  <2>1. \A b \in Blocks, i \in Index :
           /\ <<b, i>> \notin Hearers(n, g, k) => m.param[b][i] = n.param[b][i]
           /\ <<b, i>> \in Hearers(n, g, k) => m.param[b][i].val = n.param[g][k].val
           /\ m.param[b][i] # NULL => m.param[b][i].arg = n.param[b][i].arg
    <3>1. Copied(n, m, g, k)
      BY <1>7, PropagateFacts
    <3> QED
      BY <3>1 DEF Copied
  <2>2. \A f \in Blocks, i \in Index : Reached(m, f, i) = Reached(n, f, i)
    <3>1. SameBindings(n, m)
      BY <1>1, <2>1 DEF SameBindings
    <3> QED
      BY <1>1, <3>1, ReachedSame
  <2>3. x \in Bindings(n) /\ n.param[x[1]][x[2]].arg = j
    BY <1>1, <1>2, <1>3, <1>4, <2>1 DEF Bindings, IsBound
  <2>4. x \in BoundTo(n, h, j)
    BY <1>3, <1>4, <2>3, BoundToFacts
  <2>5. x \notin Reached(n, h, j) => x \in Unreached(m)
    BY <1>2, <1>3, <1>4, <2>2 DEF Unreached
  <2>6. ASSUME x \in Reached(n, h, j), x \in Hearers(n, g, k)
        PROVE  m.param[h][j].val # n.param[g][k].val
    <3>1. m.param[x[1]][x[2]].val = n.param[g][k].val
      BY <1>4, <2>1, <2>6
    <3> QED
      BY <1>2, <1>5, <3>1
  <2>7. CASE h = g /\ j = k
    <3>1. m.param[h][j] = n.param[g][k]
      <4>1. ~IsStrictPrefix(g, g)
        BY DEF IsStrictPrefix
      <4> QED
        BY <1>1, <1>4, <2>7, <4>1
    <3>2. x \notin Reached(n, h, j)
      BY <2>6, <2>7, <3>1 DEF Hearers
    <3>3. IsStrictPrefix(g, x[1])
      BY <1>3, <1>4, <2>7, StrictPrefixOf
    <3> QED
      BY <1>7, <2>5, <3>2, <3>3
  <2>8. CASE <<h, j>> \in Reached(n, g, k)
    <3>1. <<h, j>> \in Hearers(n, g, k)
      BY <2>8 DEF Hearers
    <3>2. m.param[h][j].val = n.param[g][k].val
      BY <1>4, <2>1, <3>1
    <3>3. x \notin Reached(n, h, j)
      BY <2>6, <2>8, <3>2 DEF Hearers
    <3>4. <<h, j>> \in Bindings(n) /\ Front(h) = g
      BY <2>8, BoundToFacts, HearersBound
    <3>5. g \in {Universe} \cup Galaxy /\ h # Universe
      BY <1>4, <3>4, BlockKinds DEF Bindings
    <3>6. g = Universe
      BY <1>4, <3>4, <3>5, Paths
    <3>7. IsStrictPrefix(g, x[1])
      BY <1>4, <3>6, StrictPrefixOf
    <3> QED
      BY <1>7, <2>5, <3>3, <3>7
  <2>9. CASE ~(h = g /\ j = k) /\ <<h, j>> \notin Reached(n, g, k)
    <3>1. x \notin BoundTo(n, g, k)
      BY <1>3, <2>3, <2>9, BoundToFacts
    <3>2. x \notin Hearers(n, g, k)
      <4>1. x \notin Reached(n, g, k)
        BY <3>1, HearersBound
      <4>2. ASSUME NEW z \in Reached(n, g, k), x \in Reached(n, z[1], z[2])
            PROVE  FALSE
        <5>1. z \in Bindings(n)
          BY HearersBound, BoundToFacts
        <5>2. z[1] \in Blocks /\ z[2] \in Index /\ z = <<z[1], z[2]>>
          BY <5>1, BindingFacts
        <5>3. x \in BoundTo(n, z[1], z[2])
          BY <4>2, <5>2, HearersBound
        <5>4. h = z[1] /\ j = z[2]
          BY <1>3, <2>3, <5>2, <5>3, BoundToFacts
        <5> QED
          BY <2>9, <5>2, <5>4
      <4> QED
        BY <4>1, <4>2 DEF Hearers
    <3>3. <<h, j>> \notin Hearers(n, g, k)
      <4>1. ASSUME NEW z \in Reached(n, g, k), <<h, j>> \in Reached(n, z[1], z[2])
            PROVE  FALSE
        <5>1. z \in Bindings(n)
          BY HearersBound, BoundToFacts
        <5>2. z[1] \in Blocks /\ z[1] # Universe /\ z[2] \in Index
          BY <5>1, BindingFacts
        <5>3. <<h, j>> \in BoundTo(n, z[1], z[2])
          BY <4>1, <5>2, HearersBound
        <5>4. <<h, j>> \in Bindings(n) /\ Front(h) = z[1]
          BY <5>2, <5>3, BoundToFacts
        <5> QED
          BY <1>4, <5>2, <5>4, Paths DEF Bindings
      <4> QED
        BY <2>9, <4>1 DEF Hearers
    <3>4. m.param[x[1]][x[2]] = n.param[x[1]][x[2]] /\ m.param[h][j] = n.param[h][j]
      BY <1>4, <2>1, <3>2, <3>3
    <3>5. Given(n, x) = n.param[h][j]
      BY <1>3, <2>3 DEF Given
    <3> QED
      BY <1>2, <1>5, <2>3, <3>1, <3>4, <3>5 DEF Apart
  <2> QED
    BY <2>7, <2>8, <2>9
<1> QED
  BY <1>6, <1>7

-----------------------------------------------------------------------------
(* Nets with other parameters and models, and the same tree. *)

(* Lists of children and parameters that make a net. *)
TreeOK(K, P) ==
    /\ \A i \in Index : ~IsBound(P[Universe][i])
    /\ \A b \in Blocks : IsInjective(K[b]) /\ \A c \in Range(K[b]) : Front(c) = b
    /\ \A b \in Blocks : b # Universe /\ b \notin Range(K[Front(b)]) => K[b] = <<>> /\ P[b] = None

NetRecord(K, M, F, P) == [kids |-> K, model |-> M, flag |-> F, param |-> P]

NetTypes(K, M, F, P) ==
    /\ K \in [Blocks -> Seq(Blocks \ {Universe})]
    /\ M \in [Models -> [Index -> Default \cup {NULL}]]
    /\ F \in [Models -> BOOLEAN]
    /\ P \in [Blocks -> Table]

NetFrom(m, K, M, F, P) ==
    m.kids = K /\ m.model = M /\ m.flag = F /\ m.param = P /\ IsNet(m)

LEMMA NetOf ==
    ASSUME NEW K, NEW M, NEW F, NEW P, NetTypes(K, M, F, P), TreeOK(K, P),
           NEW m, m = NetRecord(K, M, F, P)
    PROVE  NetFrom(m, K, M, F, P)
<1>1. m.kids = K /\ m.model = M /\ m.flag = F /\ m.param = P
  BY DEF NetRecord
<1>2. m \in [kids : [Blocks -> Seq(Blocks \ {Universe})],
             model : [Models -> [Index -> Default \cup {NULL}]],
             flag : [Models -> BOOLEAN],
             param : [Blocks -> Table]]
  BY DEF NetRecord, NetTypes
<1> QED
  BY <1>1, <1>2 DEF IsNet, TreeOK, Present, NetFrom

LEMMA NetTree ==
    ASSUME NEW n, IsNet(n)
    PROVE  TreeOK(n.kids, n.param)
BY DEF IsNet, TreeOK, Present

LEMMA SameTree ==
    ASSUME NEW n, IsNet(n), NEW M \in [Models -> [Index -> Default \cup {NULL}]],
           NEW F \in [Models -> BOOLEAN], NEW P \in [Blocks -> Table],
           \A i \in Index : ~IsBound(P[Universe][i]),
           \A b \in Blocks : b \notin Present(n) => P[b] = None,
           NEW m, m = [kids |-> n.kids, model |-> M, flag |-> F, param |-> P]
    PROVE  /\ m.kids = n.kids /\ m.model = M /\ m.flag = F /\ m.param = P
           /\ IsNet(m)
<1>1. m.kids = n.kids /\ m.model = M /\ m.flag = F /\ m.param = P
  OBVIOUS
<1>2. m \in [kids : [Blocks -> Seq(Blocks \ {Universe})],
             model : [Models -> [Index -> Default \cup {NULL}]],
             flag : [Models -> BOOLEAN],
             param : [Blocks -> Table]]
  BY NetParts
<1> QED
  BY <1>1, <1>2, NetOfParams

(* m is n with another parameter i of b. *)
OneSlot(n, m, b, i) ==
    \A c \in Blocks, j \in Index : ~(c = b /\ j = i) => m.param[c][j] = n.param[c][j]

WithSlot(n, M, F, b, i, p) ==
    [kids |-> n.kids, model |-> M, flag |-> F, param |-> [n.param EXCEPT ![b][i] = p]]

LEMMA SlotNet ==
    ASSUME NEW n, IsNet(n), NEW b \in Present(n), NEW i \in Index, NEW p \in Param \cup {NULL},
           b = Universe => ~IsBound(p),
           NEW M \in [Models -> [Index -> Default \cup {NULL}]], NEW F \in [Models -> BOOLEAN],
           NEW m, m = WithSlot(n, M, F, b, i, p)
    PROVE  /\ m.kids = n.kids /\ m.model = M /\ m.flag = F
           /\ m.param[b][i] = p /\ OneSlot(n, m, b, i)
           /\ IsNet(m)
<1>1. b \in Blocks /\ n.param \in [Blocks -> [Index -> Param \cup {NULL}]]
  BY NetParts DEF Present, Table
<1>2. PICK P : P = [n.param EXCEPT ![b][i] = p]
  OBVIOUS
<1>3. P \in [Blocks -> Table] /\ P[b][i] = p
  BY <1>1, <1>2 DEF Table
<1>4. \A c \in Blocks, j \in Index : ~(c = b /\ j = i) => P[c][j] = n.param[c][j]
  BY <1>1, <1>2
<1>5. \A c \in Blocks : c \notin Present(n) => P[c] = None
  <2>1. \A c \in Blocks : c # b => P[c] = n.param[c]
    BY <1>1, <1>2
  <2> QED
    BY <2>1, NetFields
<1>6. \A j \in Index : ~IsBound(P[Universe][j])
  BY <1>3, <1>4, Paths, ParamType
<1>7. m = [kids |-> n.kids, model |-> M, flag |-> F, param |-> P]
  BY <1>2 DEF WithSlot
<1>8. m.kids = n.kids /\ m.model = M /\ m.flag = F /\ m.param = P /\ IsNet(m)
  BY <1>3, <1>5, <1>6, <1>7, SameTree
<1>9. OneSlot(n, m, b, i)
  <2>1. ASSUME NEW c \in Blocks, NEW j \in Index, ~(c = b /\ j = i)
        PROVE  m.param[c][j] = n.param[c][j]
    <3>1. P[c][j] = n.param[c][j]
      BY <1>4, <2>1
    <3> QED
      BY <1>8, <3>1
  <2> QED
    BY <2>1 DEF OneSlot
<1>10. m.param[b][i] = p
  BY <1>3, <1>8
<1> QED
  BY <1>8, <1>9, <1>10

SlotIn(n, m, M, F, b, i, p) ==
    /\ m.kids = n.kids /\ m.model = M /\ m.flag = F
    /\ m.param[b][i] = p /\ OneSlot(n, m, b, i)
    /\ IsNet(m)

MayHave(b, p) == b = Universe => ~IsBound(p)

LEMMA SlotIs ==
    ASSUME NEW n, IsNet(n), NEW b \in Present(n), NEW i \in Index, NEW p \in Param \cup {NULL},
           MayHave(b, p),
           NEW M \in [Models -> [Index -> Default \cup {NULL}]], NEW F \in [Models -> BOOLEAN],
           NEW m, m = WithSlot(n, M, F, b, i, p)
    PROVE  SlotIn(n, m, M, F, b, i, p)
<1>1. b = Universe => ~IsBound(p)
  BY DEF MayHave
<1>2. /\ m.kids = n.kids /\ m.model = M /\ m.flag = F
      /\ m.param[b][i] = p /\ OneSlot(n, m, b, i)
      /\ IsNet(m)
  BY <1>1, SlotNet
<1> QED
  BY <1>2 DEF SlotIn

(* Setting one parameter, and handing it on, makes no other go astray. *)
LEMMA SlotApart ==
    ASSUME NEW n, IsNet(n), NEW n1, IsNet(n1), n1.kids = n.kids,
           NEW b \in Blocks, NEW i \in Index, OneSlot(n, n1, b, i),
           NEW m, m = propagate_arg(n1, b, i),
           NEW x \in Apart(m), x # <<b, i>>
    PROVE  \/ x \in Apart(n) /\ ~(Front(x[1]) = b /\ n.param[x[1]][x[2]].arg = i)
           \/ n1.param[b][i] # NULL /\ x \in Unreached(m) /\ IsStrictPrefix(b, x[1])
<1>1. CASE x \in Apart(n1) /\ x \notin BoundTo(n1, b, i)
  <2>1. x \in Bindings(n1)
    BY <1>1 DEF Apart
  <2>2. PICK h, j : h = Front(x[1]) /\ j = n1.param[x[1]][x[2]].arg
    OBVIOUS
  <2>3. x[1] \in Blocks /\ x[1] # Universe /\ x[2] \in Index /\ x = <<x[1], x[2]>>
        /\ h \in Blocks /\ j \in Index
    BY <2>1, <2>2, BindingFacts
  <2>4. n1.param[x[1]][x[2]] = n.param[x[1]][x[2]]
    BY <2>3 DEF OneSlot
  <2>5. ~(h = b /\ j = i)
    BY <1>1, <2>1, <2>2, BoundToFacts
  <2>6. n1.param[h][j] = n.param[h][j]
    BY <2>3, <2>5 DEF OneSlot
  <2>7. x \in Bindings(n)
    BY <2>1, <2>4 DEF Bindings
  <2>8. Given(n1, x) = n1.param[h][j] /\ Given(n, x) = n.param[h][j]
    BY <2>2, <2>4 DEF Given
  <2> QED
    <3>1. x \in Bindings(n1) /\ Given(n1, x) # NULL /\ Given(n1, x).type = n1.param[x[1]][x[2]].type
          /\ Given(n1, x).val # n1.param[x[1]][x[2]].val
      BY <1>1 DEF Apart
    <3>2. x \in Apart(n)
      BY <2>4, <2>6, <2>7, <2>8, <3>1 DEF Apart
    <3>3. ~(Front(x[1]) = b /\ n.param[x[1]][x[2]].arg = i)
      BY <2>2, <2>4, <2>5
    <3> QED
      BY <3>2, <3>3
<1>2. CASE n1.param[b][i] # NULL /\ x \in Unreached(m) /\ IsStrictPrefix(b, x[1])
  BY <1>2
<1> QED
  BY <1>1, <1>2, PropagateApart

(* What is bound afterwards was bound before, to the same argument. *)
LEMMA PropagateBindings ==
    ASSUME NEW n, IsNet(n), NEW g \in Blocks, NEW k \in Index, NEW m, m = propagate_arg(n, g, k),
           NEW x \in Bindings(m)
    PROVE  x \in Bindings(n) /\ m.param[x[1]][x[2]].arg = n.param[x[1]][x[2]].arg
<1>0. IsNet(m)
  BY PropagateFacts
<1>1. CASE n.param[g][k] = NULL
  <2>1. TurnedOff(n, m, g, k)
    BY <1>1, PropagateFacts
  <2> QED
    BY <2>1 DEF TurnedOff
<1>2. CASE n.param[g][k] # NULL
  <2>1. Copied(n, m, g, k) /\ Propagated(n, m, g, k)
    BY <1>2, PropagateFacts
  <2>2. x[1] \in Blocks /\ x[1] # Universe /\ x[2] \in Index /\ m.param[x[1]][x[2]] # NULL /\ x = <<x[1], x[2]>>
        /\ m.param[x[1]][x[2]].arg \in Index
    BY <1>0, BindingFacts, ParamFacts
  <2>3. m.param[x[1]][x[2]].arg = n.param[x[1]][x[2]].arg /\ n.param[x[1]][x[2]] # NULL
    BY <2>1, <2>2 DEF Copied, Propagated
  <2> QED
    BY <2>2, <2>3, Indexes DEF Bindings, IsBound
<1> QED
  BY <1>1, <1>2

(* Where all types are known propagate_arg reaches everything. *)
TypedBelow(n, b) ==
    \A x \in Bindings(n) : IsStrictPrefix(b, x[1]) => n.param[x[1]][x[2]].type # "arg"

LEMMA ReachedTyped ==
    ASSUME NEW n, IsNet(n), NEW b \in Blocks, TypedBelow(n, b), NEW x \in Unreached(n)
    PROVE  ~IsStrictPrefix(b, x[1])
<1> SUFFICES ASSUME IsStrictPrefix(b, x[1]) PROVE FALSE
  OBVIOUS
<1>1. x \in Bindings(n) /\ x \notin Reached(n, Front(x[1]), n.param[x[1]][x[2]].arg)
  BY DEF Unreached
<1>2. PICK h, j : h = Front(x[1]) /\ j = n.param[x[1]][x[2]].arg
  OBVIOUS
<1>3. x[1] \in Blocks /\ h \in Blocks /\ j \in Index
  BY <1>1, <1>2, BindingFacts
<1>4. x \in BoundTo(n, h, j) /\ x \notin Reached(n, h, j)
  BY <1>1, <1>2, <1>3, BoundToFacts
<1>5. PICK y \in BoundTo(n, h, j) : n.param[y[1]][y[2]].type = "arg"
  BY <1>4 DEF Reached
<1>6. y \in Bindings(n) /\ Front(y[1]) = h
  BY <1>3, <1>5, BoundToFacts
<1>7. y[1] \in Blocks /\ y[1] # Universe
  BY <1>6, BindingFacts
<1>8. IsStrictPrefix(b, y[1])
  BY <1>2, <1>3, <1>6, <1>7, StrictPrefixOf
<1> QED
  BY <1>5, <1>6, <1>8 DEF TypedBelow

-----------------------------------------------------------------------------
(* One step of KrnVerifyParams. *)

(* What the step of parameter i makes of n is m, by way of n1. *)
SlotVerified(n, n1, m, b, i, create) ==
    /\ IsNet(n1) /\ n1.kids = n.kids /\ n1.flag = n.flag
    /\ OneSlot(n, n1, b, i)
    /\ m = propagate_arg(n1, b, i)
    /\ n.model[ModelOf(b)][i] # NULL => n1.param[b][i] # NULL
    /\ ~IsBound(n.param[b][i]) => n1.model = n.model /\ ~IsBound(n1.param[b][i])
    /\ IsBound(n.param[b][i]) =>
          \E outer \in Default :
             /\ outer = LET q == n.model[ModelOf(b) - 1][n.param[b][i].arg]
                        IN IF create THEN KrnParamCheck(q, n.model[ModelOf(b)][i]) ELSE q
             /\ n1.model = [n.model EXCEPT ![ModelOf(b) - 1][n.param[b][i].arg] = outer]
             /\ n1.param[b][i] = KrnParamCheck([KrnParamCheck(n.param[b][i], outer)
                                                   EXCEPT !.arg = n.param[b][i].arg],
                                               n.model[ModelOf(b)][i])

Stepped(n, s, b, i, create) ==
    IF s.ok THEN \E n1 : SlotVerified(n, n1, s.net, b, i, create)
    ELSE s.net = n /\ IsBound(n.param[b][i])

LEMMA StepVerified ==
    ASSUME NEW n, IsNet(n), NEW b \in Present(n), NEW i \in Index, NEW create \in BOOLEAN,
           NEW s, s = Verified(Result(TRUE, n), b, i, create)
    PROVE  Stepped(n, s, b, i, create)
<1> DEFINE p == n.param[b][i]
           own == n.model[ModelOf(b)][i]
<1>1. b \in Blocks /\ ModelOf(b) \in Models
  BY BlockKinds DEF Present
<1>2. p \in Param \cup {NULL} /\ own \in Default \cup {NULL}
  BY <1>1, NetFields
<1>3. Result(TRUE, n).ok = TRUE /\ Result(TRUE, n).net = n
  BY DEF Result
<1>4. PICK K, M, F, P : n = [kids |-> K, model |-> M, flag |-> F, param |-> P]
  BY NetParts
<1>4a. K = n.kids /\ M = n.model /\ F = n.flag /\ P = n.param
  BY <1>4
<1>5. CASE ~IsBound(p)
  <2>1. PICK n1 : n1 = [n EXCEPT !.param[b][i] = KrnParamCheck(p, own)]
    BY Zenon
  <2>2. s = Result(TRUE, propagate_arg(n1, b, i))
    BY <1>3, <1>5, <2>1, Zenon DEF Verified
  <2>3. PICK v : v = KrnParamCheck(p, own)
    OBVIOUS
  <2>4. v \in Param \cup {NULL} /\ ~IsBound(v) /\ (own # NULL => v # NULL)
    BY <1>2, <1>5, <2>3, ParamFacts, CheckedParam DEF KrnParamCheck, IsBound, Set
  <2>5. n1 = WithSlot(n, n.model, n.flag, b, i, v)
    BY <1>4, <1>4a, <2>1, <2>3 DEF WithSlot
  <2>6. /\ n1.kids = n.kids /\ n1.model = n.model /\ n1.flag = n.flag
        /\ n1.param[b][i] = v /\ OneSlot(n, n1, b, i) /\ IsNet(n1)
    BY <2>4, <2>5, SlotNet, NetParts
  <2>7. s.ok = TRUE /\ s.net = propagate_arg(n1, b, i)
    BY <2>2 DEF Result
  <2>8. SlotVerified(n, n1, s.net, b, i, create)
    BY <1>5, <2>4, <2>6, <2>7 DEF SlotVerified
  <2> QED
    BY <2>7, <2>8 DEF Stepped
<1>6. CASE IsBound(p)
  <2>1. PICK outer : outer = LET q == n.model[ModelOf(b) - 1][p.arg]
                             IN IF create THEN KrnParamCheck(q, own) ELSE q
    OBVIOUS
  <2>2. p \in Param /\ p.arg \in Index /\ b # Universe
    BY <1>2, <1>6, ParamFacts, ParamType DEF IsBound
  <2>3. ModelOf(b) - 1 \in Models
    BY <1>1, <2>2, BlockKinds, Paths DEF Models
  <2>4. outer \in Default \cup {NULL}
    <3>1. n.model[ModelOf(b) - 1][p.arg] \in Default \cup {NULL}
      BY <2>2, <2>3, NetFields
    <3>2. KrnParamCheck(n.model[ModelOf(b) - 1][p.arg], own) \in Default \cup {NULL}
      BY <1>2, <3>1, CheckedDefault
    <3> QED
      BY <2>1, <3>1, <3>2
  <2>5. CASE outer = NULL
    <3>1. s = Result(FALSE, n)
      BY <1>3, <1>6, <2>1, <2>5, Zenon DEF Verified
    <3> QED
      BY <1>6, <3>1 DEF Result, Stepped
  <2>6. CASE outer # NULL
    <3>1. PICK v : v = KrnParamCheck([KrnParamCheck(p, outer) EXCEPT !.arg = p.arg], own)
      OBVIOUS
    <3>2. PICK n1 : n1 = [[n EXCEPT !.model[ModelOf(b) - 1][p.arg] = outer] EXCEPT !.param[b][i] = v]
      OBVIOUS
    <3>3. s = Result(TRUE, propagate_arg(n1, b, i))
      BY <1>3, <1>6, <2>1, <2>6, <3>1, <3>2, Zenon DEF Verified
    <3>4. v \in Param \cup {NULL} /\ (own # NULL => v # NULL)
      <4>1. KrnParamCheck(p, outer) \in Param
        BY <2>2, <2>4, <2>6, ParamFacts DEF KrnParamCheck
      <4>2. PICK w : w = [KrnParamCheck(p, outer) EXCEPT !.arg = p.arg]
        OBVIOUS
      <4>3. w \in Param
        BY <2>2, <4>1, <4>2 DEF Param
      <4>4. KrnParamCheck(w, own) \in Param \cup {NULL} /\ (own # NULL => KrnParamCheck(w, own) # NULL)
        BY <1>2, <4>3, ParamFacts DEF KrnParamCheck
      <4> QED
        BY <3>1, <4>2, <4>4
    <3>4a. v \in Param \cup {NULL}
      BY <3>4
    <3>5. PICK M1 : M1 = [n.model EXCEPT ![ModelOf(b) - 1][p.arg] = outer]
      OBVIOUS
    <3>6. M1 \in [Models -> [Index -> Default \cup {NULL}]]
      BY <2>2, <2>3, <2>4, <3>5, NetParts
    <3>7. n1 = WithSlot(n, M1, n.flag, b, i, v)
      BY <1>4, <1>4a, <3>2, <3>5 DEF WithSlot
    <3>7a. n.flag \in [Models -> BOOLEAN] /\ (b = Universe => ~IsBound(v))
      BY <2>2, NetParts
    <3>8. /\ n1.kids = n.kids /\ n1.model = M1 /\ n1.flag = n.flag
          /\ n1.param[b][i] = v /\ OneSlot(n, n1, b, i) /\ IsNet(n1)
      <4> HIDE DEF p, own
      <4> QED
        BY <3>4a, <3>6, <3>7, <3>7a, SlotNet, SMTT(60)
    <3>9. s.ok = TRUE /\ s.net = propagate_arg(n1, b, i)
      BY <3>3 DEF Result
    <3>10. \E o \in Default :
             /\ o = LET q == n.model[ModelOf(b) - 1][n.param[b][i].arg]
                        IN IF create THEN KrnParamCheck(q, n.model[ModelOf(b)][i]) ELSE q
             /\ n1.model = [n.model EXCEPT ![ModelOf(b) - 1][n.param[b][i].arg] = o]
             /\ n1.param[b][i] = KrnParamCheck([KrnParamCheck(n.param[b][i], o)
                                                   EXCEPT !.arg = n.param[b][i].arg],
                                               n.model[ModelOf(b)][i])
      <4>1. outer \in Default
        BY <2>4, <2>6
      <4>2. n1.param[b][i] = KrnParamCheck([KrnParamCheck(p, outer) EXCEPT !.arg = p.arg], own)
        BY <3>1, <3>8
      <4>3. n1.model = [n.model EXCEPT ![ModelOf(b) - 1][p.arg] = outer]
        BY <3>5, <3>8
      <4> QED
        BY <2>1, <4>1, <4>2, <4>3, Zenon
    <3>11. SlotVerified(n, n1, s.net, b, i, create)
      BY <1>6, <3>4, <3>8, <3>9, <3>10, Zenon DEF SlotVerified
    <3> QED
      BY <3>9, <3>11 DEF Stepped
  <2> QED
    BY <2>5, <2>6
<1> QED
  BY <1>5, <1>6

(* Verifying b changes b, what is below it, its model and that of the      *)
(* galaxy around it.                                                       *)
Frame(n0, n, b) ==
    /\ IsNet(n) /\ n.kids = n0.kids
    /\ \A c \in Blocks : ~IsPrefix(b, c) => n.param[c] = n0.param[c]
    /\ \A m \in Models : m # ModelOf(b) => n.flag[m] = n0.flag[m]
    /\ \A m \in Models : m \notin {ModelOf(b), ModelOf(b) - 1} => n.model[m] = n0.model[m]

LEMMA SameTable ==
    ASSUME NEW n, IsNet(n), NEW m, IsNet(m), NEW c \in Blocks,
           \A j \in Index : m.param[c][j] = n.param[c][j]
    PROVE  m.param[c] = n.param[c]
<1>1. m.param[c] \in [Index -> Param \cup {NULL}] /\ n.param[c] \in [Index -> Param \cup {NULL}]
  BY NetFields
<1> QED
  BY <1>1

LEMMA StepFrame ==
    ASSUME NEW n, IsNet(n), NEW b \in Present(n), NEW i \in Index, NEW create \in BOOLEAN,
           NEW n1, NEW m, SlotVerified(n, n1, m, b, i, create)
    PROVE  /\ Frame(n, m, b) /\ m.flag = n.flag /\ m.model = n1.model
           /\ m.param[b][i] = n1.param[b][i]
           /\ \A j \in Index : j # i => m.param[b][j] = n.param[b][j]
           /\ TypedBelow(n, b) => TypedBelow(m, b)
<1>1. b \in Blocks
  BY DEF Present
<1>2. /\ IsNet(n1) /\ n1.kids = n.kids /\ n1.flag = n.flag
      /\ OneSlot(n, n1, b, i) /\ m = propagate_arg(n1, b, i)
  BY DEF SlotVerified
<1>3. IsNet(m) /\ SameShape(n1, m) /\ Propagated(n1, m, b, i)
  BY <1>1, <1>2, PropagateFacts
<1>4. m.kids = n.kids /\ m.flag = n.flag /\ m.model = n1.model
  BY <1>2, <1>3 DEF SameShape
<1>5. \A c \in Blocks, j \in Index : ~IsStrictPrefix(b, c) => m.param[c][j] = n1.param[c][j]
  BY <1>3 DEF Propagated
<1>6. ~IsStrictPrefix(b, b) /\ IsPrefix(b, b)
  BY DEF IsStrictPrefix, IsPrefix
<1>7. m.param[b][i] = n1.param[b][i] /\ \A j \in Index : j # i => m.param[b][j] = n.param[b][j]
  BY <1>1, <1>2, <1>5, <1>6 DEF OneSlot
<1>8. ASSUME NEW c \in Blocks, ~IsPrefix(b, c)
      PROVE  m.param[c] = n.param[c]
  <2>1. c # b /\ ~IsStrictPrefix(b, c)
    BY <1>6, <1>8 DEF IsStrictPrefix
  <2>2. \A j \in Index : m.param[c][j] = n.param[c][j]
    BY <1>2, <1>5, <2>1 DEF OneSlot
  <2> QED
    BY <1>3, <2>2, SameTable
<1>9. \A k \in Models : k \notin {ModelOf(b), ModelOf(b) - 1} => m.model[k] = n.model[k]
  <2>1. CASE IsBound(n.param[b][i])
    <3>1. PICK outer \in Default : n1.model = [n.model EXCEPT ![ModelOf(b) - 1][n.param[b][i].arg] = outer]
      BY <2>1 DEF SlotVerified
    <3>2. n.model \in [Models -> [Index -> Default \cup {NULL}]]
      BY NetParts
    <3> QED
      BY <1>4, <3>1, <3>2
  <2>2. CASE ~IsBound(n.param[b][i])
    BY <1>4, <2>2 DEF SlotVerified
  <2> QED
    BY <2>1, <2>2
<1>10. ASSUME TypedBelow(n, b), NEW x \in Bindings(m), IsStrictPrefix(b, x[1])
       PROVE  m.param[x[1]][x[2]].type # "arg"
  <2>1. x \in Bindings(n1)
    BY <1>1, <1>2, PropagateBindings
  <2>2. x[1] \in Blocks /\ x[1] # b /\ x[2] \in Index
    BY <1>2, <1>6, <1>10, <2>1, BindingFacts
  <2>3. n1.param[x[1]][x[2]] = n.param[x[1]][x[2]]
    BY <1>2, <2>2 DEF OneSlot
  <2>4. x \in Bindings(n)
    BY <2>1, <2>3 DEF Bindings
  <2>5. m.param[x[1]][x[2]] # NULL
    BY DEF Bindings, IsBound
  <2>6. m.param[x[1]][x[2]].type = n.param[x[1]][x[2]].type
    BY <1>3, <2>2, <2>3, <2>5 DEF Propagated
  <2> QED
    BY <1>10, <2>4, <2>6 DEF TypedBelow
<1>11. Frame(n, m, b)
  BY <1>3, <1>4, <1>8, <1>9 DEF Frame
<1> QED
  BY <1>4, <1>7, <1>10, <1>11 DEF TypedBelow

LEMMA StepApart ==
    ASSUME NEW n, IsNet(n), NEW b \in Present(n), NEW i \in Index, NEW create \in BOOLEAN,
           NEW n1, NEW m, SlotVerified(n, n1, m, b, i, create), TypedBelow(n, b),
           NEW x \in Apart(m), x # <<b, i>>
    PROVE  /\ x \in Apart(n)
           /\ m.param[x[1]][x[2]].arg = n.param[x[1]][x[2]].arg
           /\ ~(Front(x[1]) = b /\ n.param[x[1]][x[2]].arg = i)
<1>1. b \in Blocks
  BY DEF Present
<1>2. /\ IsNet(n1) /\ n1.kids = n.kids
      /\ OneSlot(n, n1, b, i) /\ m = propagate_arg(n1, b, i)
  BY DEF SlotVerified
<1>3. IsNet(m) /\ TypedBelow(m, b)
  BY StepFrame DEF Frame
<1>4. x \in Bindings(m)
  BY DEF Apart
<1>5. x \in Bindings(n1) /\ m.param[x[1]][x[2]].arg = n1.param[x[1]][x[2]].arg
  BY <1>1, <1>2, <1>4, PropagateBindings
<1>6. x[1] \in Blocks /\ x[2] \in Index /\ x = <<x[1], x[2]>>
  BY <1>2, <1>5, BindingFacts
<1>7. n1.param[x[1]][x[2]] = n.param[x[1]][x[2]]
  BY <1>2, <1>6 DEF OneSlot
<1>8. ~(x \in Unreached(m) /\ IsStrictPrefix(b, x[1]))
  BY <1>1, <1>3, ReachedTyped
<1> QED
  BY <1>1, <1>2, <1>5, <1>7, <1>8, SlotApart

(* Where the value of a bound parameter comes from. *)
LEMMA StepSlot ==
    ASSUME NEW n, IsNet(n), NEW b \in Present(n), NEW i \in Index, NEW create \in BOOLEAN,
           NEW n1, NEW m, SlotVerified(n, n1, m, b, i, create), IsBound(m.param[b][i]),
           NEW q, q = n.model[ModelOf(b) - 1][m.param[b][i].arg]
    PROVE  /\ IsBound(n.param[b][i]) /\ m.param[b][i].arg = n.param[b][i].arg
           /\ m.param[b][i].type # "arg"
           /\ \/ m.param[b][i] = n.param[b][i]
              \/ q = NULL
              \/ m.param[b][i].type = q.type /\ m.param[b][i].val = q.val
              \/ create /\ m.param[b][i].type # q.type
<1>1. b \in Blocks /\ m.param[b][i] = n1.param[b][i] /\ ModelOf(b) \in Models
  BY StepFrame, BlockKinds DEF Present
<1>2. IsBound(n.param[b][i])
  BY <1>1 DEF SlotVerified
<1>3. PICK p, own : p = n.param[b][i] /\ own = n.model[ModelOf(b)][i]
  OBVIOUS
<1>4. p \in Param /\ own \in Default \cup {NULL} /\ p.arg \in Index /\ p.arg # Unbound
  BY <1>1, <1>2, <1>3, NetFields, ParamFacts DEF IsBound
<1>5. PICK outer \in Default :
         /\ outer = LET r == n.model[ModelOf(b) - 1][p.arg]
                    IN IF create THEN KrnParamCheck(r, own) ELSE r
         /\ n1.param[b][i] = KrnParamCheck([KrnParamCheck(p, outer) EXCEPT !.arg = p.arg], own)
  BY <1>2, <1>3 DEF SlotVerified
<1>6. PICK w : w = [KrnParamCheck(p, outer) EXCEPT !.arg = p.arg]
  OBVIOUS
<1>7. /\ w \in Param /\ w.arg = p.arg /\ w.type = outer.type /\ outer.type \in Types
      /\ w = p \/ w.val = outer.val
  <2>1. KrnParamCheck(p, outer) \in Param /\ outer.type \in Types /\ outer.val \in Values /\ outer # NULL /\ p # NULL
    BY <1>4, <1>5, ParamFacts, Zenon DEF KrnParamCheck
  <2>2. CASE p.type = outer.type
    <3>1. w = p
      <4>1. w = [p EXCEPT !.arg = p.arg]
        BY <1>6, <2>1, <2>2 DEF KrnParamCheck
      <4> QED
        BY <1>4, <4>1 DEF Param
    <3> QED
      BY <1>4, <2>1, <2>2, <3>1
  <2>3. CASE p.type # outer.type
    <3>1. w = [Set(outer.type, outer.val) EXCEPT !.arg = p.arg]
      BY <1>6, <2>1, <2>3 DEF KrnParamCheck
    <3>2. w = [type |-> outer.type, val |-> outer.val, arg |-> p.arg]
      BY <3>1 DEF Set
    <3> QED
      BY <1>4, <2>1, <3>2 DEF Param, Types
  <2> QED
    BY <2>2, <2>3
<1>8. n1.param[b][i] = KrnParamCheck(w, own)
  BY <1>5, <1>6
<1>9. own # NULL /\ own.type = w.type /\ n1.param[b][i] = w
  <2>1. IsBound(KrnParamCheck(w, own))
    BY <1>1, <1>8
  <2>2. own # NULL
    BY <2>1 DEF KrnParamCheck, IsBound
  <2>3. own.type = w.type
    BY <2>1, <2>2 DEF KrnParamCheck, IsBound, Set
  <2> QED
    BY <1>7, <1>8, <2>2, <2>3, ParamFacts DEF KrnParamCheck
<1>10. m.param[b][i] = w /\ m.param[b][i].arg = p.arg /\ m.param[b][i].type # "arg"
  BY <1>1, <1>7, <1>9 DEF Types
<1>11. q = n.model[ModelOf(b) - 1][p.arg]
  BY <1>10
<1>12. \/ q = NULL
       \/ outer = q
       \/ create /\ own.type # q.type
  BY <1>5, <1>9, <1>11, Zenon DEF KrnParamCheck
<1> QED
  BY <1>2, <1>3, <1>7, <1>9, <1>10, <1>12

(* The model of the galaxy around changes in the same case only. *)
LEMMA StepModel ==
    ASSUME NEW n, IsNet(n), NEW b \in Present(n), b # Universe, NEW i \in Index, NEW create \in BOOLEAN,
           NEW n1, NEW m, SlotVerified(n, n1, m, b, i, create), NEW k \in Index,
           NEW q, q = n.model[ModelOf(b) - 1][k], NEW q1, q1 = m.model[ModelOf(b) - 1][k]
    PROVE  \/ q1 = q
           \/ q = NULL
           \/ create /\ IsBound(m.param[b][i]) /\ m.param[b][i].arg = k /\ m.param[b][i].type # q.type
<1>1. b \in Blocks /\ m.param[b][i] = n1.param[b][i] /\ ModelOf(b) \in Models /\ m.model = n1.model
  BY StepFrame, BlockKinds DEF Present
<1>1a. ModelOf(b) - 1 \in Models /\ n.model \in [Models -> [Index -> Default \cup {NULL}]]
  <2>1. b \in Galaxy \/ b \in Star
    BY <1>1, BlockKinds
  <2>2. ModelOf(b) \in 1..2
    BY <2>1, BlockKinds, Paths
  <2>3. ModelOf(b) - 1 \in Models
    BY <2>2 DEF Models
  <2> QED
    BY <2>3, NetParts
<1>2. CASE ~IsBound(n.param[b][i])
  BY <1>1, <1>2 DEF SlotVerified
<1>3. CASE IsBound(n.param[b][i])
  <2>1. PICK p, own : p = n.param[b][i] /\ own = n.model[ModelOf(b)][i]
    OBVIOUS
  <2>2. p \in Param /\ own \in Default \cup {NULL} /\ p.arg \in Index /\ p.arg # Unbound /\ p # NULL
    BY <1>1, <1>3, <2>1, NetFields, ParamFacts DEF IsBound
  <2>3. PICK outer \in Default :
         /\ outer = LET r == n.model[ModelOf(b) - 1][p.arg]
                    IN IF create THEN KrnParamCheck(r, own) ELSE r
         /\ n1.model = [n.model EXCEPT ![ModelOf(b) - 1][p.arg] = outer]
         /\ n1.param[b][i] = KrnParamCheck([KrnParamCheck(p, outer) EXCEPT !.arg = p.arg], own)
    BY <1>3, <2>1 DEF SlotVerified
  <2>4. CASE k # p.arg
    BY <1>1, <1>1a, <2>2, <2>3, <2>4
  <2>5. CASE k = p.arg
    <3>1. q1 = outer
      BY <1>1, <1>1a, <2>2, <2>3, <2>5
    <3>2. outer = q \/ (create /\ outer = KrnParamCheck(q, own))
      BY <2>3, <2>5
    <3>3. CASE q # NULL /\ q1 # q
      <4>1. create /\ own # NULL /\ own.type # q.type /\ outer = Set(own.type, own.val)
        BY <2>2, <2>3, <3>1, <3>2, <3>3, ParamFacts, Zenon DEF KrnParamCheck
      <4>2. outer.type = own.type /\ outer.type # "arg"
        BY <2>2, <4>1, ParamFacts DEF Set, Types
      <4>3. PICK w : w = [KrnParamCheck(p, outer) EXCEPT !.arg = p.arg]
        BY Zenon
      <4>4. w # NULL /\ w.type = own.type /\ w.arg = p.arg /\ w \in Param
        <5>1. KrnParamCheck(p, outer) \in Param /\ outer # NULL
          <6>1. outer # NULL /\ outer \in Param /\ Set(outer.type, outer.val) \in Param
            BY <2>3, ParamFacts
          <6> QED
            BY <2>2, <6>1 DEF KrnParamCheck
        <5>2. KrnParamCheck(p, outer).type = outer.type
          BY <2>2, <5>1 DEF KrnParamCheck, Set
        <5>3. w \in Param /\ w.type = outer.type /\ w.arg = p.arg
          BY <2>2, <4>3, <5>1, <5>2 DEF Param
        <5> QED
          BY <4>2, <5>3, ParamFacts
      <4>5. n1.param[b][i] = w
        BY <2>3, <4>1, <4>3, <4>4, Zenon DEF KrnParamCheck
      <4> QED
        BY <1>1, <2>2, <2>5, <4>1, <4>4, <4>5 DEF IsBound
    <3> QED
      BY <3>3
  <2> QED
    BY <2>4, <2>5
<1> QED
  BY <1>2, <1>3

-----------------------------------------------------------------------------
(* The whole of KrnVerifyParams. *)

Steps(n, b) == KrnParamCount(n.model[ModelOf(b)])

Creates(n, b) == b # Universe /\ ~n.flag[ModelOf(b) - 1]

Cut(table, k) == [i \in Index |-> IF i < k THEN table[i] ELSE NULL]

Trimmed(n, b) ==
    [n EXCEPT !.flag[ModelOf(b)] = TRUE, !.param[b] = Cut(@, Steps(n, b)),
              !.model[ModelOf(b)] = Cut(@, Steps(n, b))]

VerifyIs(h, n, b, N) ==
    h = [i \in 0..N |-> IF i = 0 THEN Result(TRUE, Trimmed(n, b))
                        ELSE Verified(h[i - 1], b, i - 1, Creates(n, b))]

LEMMA VerifyRuns ==
    ASSUME NEW n, NEW b, NEW N \in Nat
    PROVE  \E h : VerifyIs(h, n, b, N)
<1> DEFINE T == {k \in 0..N : \E h : VerifyIs(h, n, b, k)}
<1>1. 0 \in T
  <2>1. PICK h : h = [i \in 0..0 |-> Result(TRUE, Trimmed(n, b))]
    OBVIOUS
  <2>2. h = [i \in 0..0 |-> IF i = 0 THEN Result(TRUE, Trimmed(n, b))
                            ELSE Verified(h[i - 1], b, i - 1, Creates(n, b))]
    BY <2>1
  <2>3. VerifyIs(h, n, b, 0)
    BY <2>2 DEF VerifyIs
  <2> QED
    BY <2>3
<1>2. ASSUME NEW k \in 0..(N - 1), k \in T
      PROVE  k + 1 \in T
  <2>1. PICK h : VerifyIs(h, n, b, k)
    BY <1>2
  <2>2. h = [i \in 0..k |-> IF i = 0 THEN Result(TRUE, Trimmed(n, b))
                            ELSE Verified(h[i - 1], b, i - 1, Creates(n, b))]
    BY <2>1 DEF VerifyIs
  <2>3. PICK j : j = [i \in 0..(k + 1) |-> IF i = k + 1 THEN Verified(h[k], b, k, Creates(n, b)) ELSE h[i]]
    OBVIOUS
  <2>4. ASSUME NEW i \in 0..(k + 1)
        PROVE  j[i] = IF i = 0 THEN Result(TRUE, Trimmed(n, b))
                      ELSE Verified(j[i - 1], b, i - 1, Creates(n, b))
    <3>1. CASE i = k + 1
      <4>1. j[i] = Verified(h[k], b, k, Creates(n, b)) /\ j[i - 1] = h[k] /\ i # 0 /\ i - 1 = k
        BY <2>3, <3>1
      <4> QED
        BY <4>1
    <3>2. CASE i = 0
      <4>0. 0 \in 0..k /\ 0 \in 0..(k + 1) /\ 0 # k + 1
        OBVIOUS
      <4>1. j[0] = h[0] /\ h[0] = Result(TRUE, Trimmed(n, b))
        BY <2>2, <2>3, <4>0
      <4> QED
        BY <3>2, <4>1
    <3>3. CASE i # 0 /\ i # k + 1
      <4>1. i \in 0..k /\ i - 1 \in 0..(k + 1) /\ i - 1 # k + 1
        BY <3>3
      <4>2. j[i] = h[i] /\ j[i - 1] = h[i - 1] /\ h[i] = Verified(h[i - 1], b, i - 1, Creates(n, b))
        BY <2>2, <2>3, <3>3, <4>1
      <4> QED
        BY <3>3, <4>2
    <3> QED
      BY <3>1, <3>2, <3>3
  <2>5. j = [i \in 0..(k + 1) |-> j[i]]
    BY <2>3
  <2>6. j = [i \in 0..(k + 1) |-> IF i = 0 THEN Result(TRUE, Trimmed(n, b))
                                  ELSE Verified(j[i - 1], b, i - 1, Creates(n, b))]
    BY <2>4, <2>5
  <2>7. VerifyIs(j, n, b, k + 1)
    BY <2>6 DEF VerifyIs
  <2> QED
    BY <2>7
<1> HIDE DEF T
<1>3. 0..N \subseteq T
  BY <1>1, <1>2, AllUpTo
<1>4. N \in T
  BY <1>3
<1> QED
  BY <1>4 DEF T

LEMMA CountBound ==
    ASSUME NEW t
    PROVE  KrnParamCount(t) \in 0..MAX_PARAM
<1>1. PICK S : S = {i \in Index : t[i] # NULL}
  OBVIOUS
<1>2. IsFiniteSet(Index) /\ Cardinality(Index) = MAX_PARAM
  <2>1. MAX_PARAM - 1 \in Int /\ 0 \in Int
    BY Indexes
  <2> QED
    BY <2>1, Indexes, FS_Interval DEF Index
<1>3. IsFiniteSet(S) /\ Cardinality(S) <= MAX_PARAM
  BY <1>1, <1>2, FS_Subset
<1>4. Cardinality(S) \in Nat
  BY <1>3, FS_CardinalityType
<1> QED
  BY <1>1, <1>3, <1>4, Indexes DEF KrnParamCount

LEMMA VerifyRun ==
    ASSUME NEW n, NEW b
    PROVE  \E h : VerifyIs(h, n, b, Steps(n, b)) /\ KrnVerifyParams(n, b) = h[Steps(n, b)]
<1>1. Steps(n, b) \in Nat
  BY CountBound, Indexes DEF Steps
<1>2. PICK e : e = CHOOSE done : done =
          [i \in 0..Steps(n, b) |-> IF i = 0 THEN Result(TRUE, Trimmed(n, b))
                                    ELSE Verified(done[i - 1], b, i - 1, Creates(n, b))]
  OBVIOUS
<1>3. VerifyIs(e, n, b, Steps(n, b))
  <2>1. \E done : VerifyIs(done, n, b, Steps(n, b))
    BY <1>1, VerifyRuns
  <2>2. \E done : done = [i \in 0..Steps(n, b) |-> IF i = 0 THEN Result(TRUE, Trimmed(n, b))
                                    ELSE Verified(done[i - 1], b, i - 1, Creates(n, b))]
    BY <2>1 DEF VerifyIs
  <2>3. e = [i \in 0..Steps(n, b) |-> IF i = 0 THEN Result(TRUE, Trimmed(n, b))
                                    ELSE Verified(e[i - 1], b, i - 1, Creates(n, b))]
    BY <1>2, <2>2
  <2> QED
    BY <2>3 DEF VerifyIs
<1>4. KrnVerifyParams(n, b) = e[Steps(n, b)]
  BY <1>2 DEF KrnVerifyParams, Steps, Creates, Trimmed, Cut
<1> QED
  BY <1>3, <1>4

(* After i parameters of b, which were those of n0. *)
Retyped(n0, n, b, i, k) ==
    /\ Creates(n0, b)
    /\ \E j \in Index : /\ j < i /\ IsBound(n.param[b][j]) /\ n.param[b][j].arg = k
                        /\ n.param[b][j].type # n0.model[ModelOf(b) - 1][k].type

SlotOrigin(n0, n, b, i, j) ==
    IsBound(n.param[b][j]) =>
        LET k == n.param[b][j].arg
            q == n0.model[ModelOf(b) - 1][k]
        IN /\ n.param[b][j].type # "arg"
           /\ IsBound(n0.param[b][j]) /\ n0.param[b][j].arg = k
           /\ \/ n.param[b][j] = n0.param[b][j]
              \/ q = NULL
              \/ n.param[b][j].type = q.type /\ n.param[b][j].val = q.val
              \/ Retyped(n0, n, b, i, k)

ModelOrigin(n0, n, b, i, k) ==
    \/ n.model[ModelOf(b) - 1][k] = n0.model[ModelOf(b) - 1][k]
    \/ n0.model[ModelOf(b) - 1][k] = NULL
    \/ Retyped(n0, n, b, i, k)

Heard(n0, n, b, i) ==
    \A x \in Apart(n) : IsStrictPrefix(b, x[1]) =>
        x \in Apart(n0) /\ ~(Front(x[1]) = b /\ n.param[x[1]][x[2]].arg < i)

Verifying(n0, n, b, i) ==
    /\ Frame(n0, n, b) /\ TypedBelow(n, b)
    /\ \A j \in Index : i <= j /\ j < Steps(n0, b) => n.param[b][j] = n0.param[b][j]
    /\ \A j \in Index : Steps(n0, b) <= j => n.param[b][j] = NULL
    /\ \A j \in Index : j < i => SlotOrigin(n0, n, b, i, j)
    /\ b # Universe => \A k \in Index : ModelOrigin(n0, n, b, i, k)
    /\ Heard(n0, n, b, i)

LEMMA CutTable ==
    ASSUME NEW k, NEW S, NEW t \in [Index -> S \cup {NULL}]
    PROVE  Cut(t, k) \in [Index -> S \cup {NULL}]
BY DEF Cut

TrimmedIn(n, m, b) ==
    /\ IsNet(m) /\ m.kids = n.kids
    /\ m.model = [n.model EXCEPT ![ModelOf(b)] = Cut(@, Steps(n, b))]
    /\ m.flag = [n.flag EXCEPT ![ModelOf(b)] = TRUE]
    /\ \A c \in Blocks : c # b => m.param[c] = n.param[c]
    /\ \A j \in Index : m.param[b][j] = IF j < Steps(n, b) THEN n.param[b][j] ELSE NULL

LEMMA TrimmedIs ==
    ASSUME NEW n, IsNet(n), NEW b \in Present(n)
    PROVE  TrimmedIn(n, Trimmed(n, b), b)
<1>1. b \in Blocks /\ ModelOf(b) \in Models
  BY BlockKinds DEF Present
<1>2. PICK k : k = Steps(n, b)
  OBVIOUS
<1>3. PICK K, M, F, P : n = [kids |-> K, model |-> M, flag |-> F, param |-> P]
  BY NetParts
<1>4. K = n.kids /\ M = n.model /\ F = n.flag /\ P = n.param
  BY <1>3
<1>5. PICK M1 : M1 = [n.model EXCEPT ![ModelOf(b)] = Cut(@, k)]
  OBVIOUS
<1>6. PICK F1 : F1 = [n.flag EXCEPT ![ModelOf(b)] = TRUE]
  OBVIOUS
<1>7. PICK P1 : P1 = [n.param EXCEPT ![b] = Cut(@, k)]
  OBVIOUS
<1>8. /\ n.model \in [Models -> [Index -> Default \cup {NULL}]]
      /\ n.flag \in [Models -> BOOLEAN]
      /\ n.param \in [Blocks -> [Index -> Param \cup {NULL}]]
  BY NetParts DEF Table
<1>9. M1 \in [Models -> [Index -> Default \cup {NULL}]] /\ F1 \in [Models -> BOOLEAN]
  <2>1. n.model[ModelOf(b)] \in [Index -> Default \cup {NULL}]
    BY <1>1, <1>8
  <2>2. Cut(n.model[ModelOf(b)], k) \in [Index -> Default \cup {NULL}]
    BY <2>1, CutTable
  <2> QED
    BY <1>1, <1>5, <1>6, <1>8, <2>2
<1>10. P1 \in [Blocks -> [Index -> Param \cup {NULL}]]
  <2>1. n.param[b] \in [Index -> Param \cup {NULL}]
    BY <1>1, <1>8
  <2>2. Cut(n.param[b], k) \in [Index -> Param \cup {NULL}]
    BY <2>1, CutTable
  <2> QED
    BY <1>1, <1>7, <1>8, <2>2
<1>11. /\ \A c \in Blocks : c # b => P1[c] = n.param[c]
       /\ \A j \in Index : P1[b][j] = IF j < k THEN n.param[b][j] ELSE NULL
  BY <1>1, <1>7, <1>8 DEF Cut
<1>12. \A j \in Index : ~IsBound(P1[Universe][j])
  BY <1>11, Paths, ParamType DEF IsBound
<1>13. \A c \in Blocks : c \notin Present(n) => P1[c] = None
  BY <1>11, NetFields
<1>14. PICK m : m = [kids |-> n.kids, model |-> M1, flag |-> F1, param |-> P1]
  OBVIOUS
<1>15. m = Trimmed(n, b)
  <2>1. PICK a1 : a1 = [n EXCEPT !.flag[ModelOf(b)] = TRUE]
    OBVIOUS
  <2>2. a1 = [kids |-> K, model |-> M, flag |-> F1, param |-> P]
    BY <1>3, <1>4, <1>6, <2>1
  <2>3. PICK a2 : a2 = [a1 EXCEPT !.param[b] = Cut(@, k)]
    OBVIOUS
  <2>4. a2 = [kids |-> K, model |-> M, flag |-> F1, param |-> P1]
    BY <1>4, <1>7, <2>2, <2>3
  <2>5. PICK a3 : a3 = [a2 EXCEPT !.model[ModelOf(b)] = Cut(@, k)]
    OBVIOUS
  <2>6. a3 = [kids |-> K, model |-> M1, flag |-> F1, param |-> P1]
    BY <1>4, <1>5, <2>4, <2>5
  <2>7. Trimmed(n, b) = a3
    <3>1. Trimmed(n, b) = [[[n EXCEPT !.flag[ModelOf(b)] = TRUE] EXCEPT !.param[b] = Cut(@, k)]
                              EXCEPT !.model[ModelOf(b)] = Cut(@, k)]
      BY <1>2, <1>3 DEF Trimmed
    <3> QED
      BY <2>1, <2>3, <2>5, <3>1
  <2> QED
    BY <1>4, <1>14, <2>6, <2>7
<1>16. m.kids = n.kids /\ m.model = M1 /\ m.flag = F1 /\ m.param = P1 /\ IsNet(m)
  <2>1. NetTypes(n.kids, M1, F1, P1)
    BY <1>9, <1>10, NetParts DEF NetTypes, Table
  <2>2. TreeOK(n.kids, P1)
    <3>1. TreeOK(n.kids, n.param)
      BY NetTree
    <3>2. \A c \in Blocks : c # Universe /\ c \notin Range(n.kids[Front(c)]) => c \notin Present(n)
      BY DEF Present
    <3> QED
      BY <1>12, <1>13, <3>1, <3>2 DEF TreeOK
  <2>3. m = NetRecord(n.kids, M1, F1, P1)
    BY <1>14 DEF NetRecord
  <2>4. NetFrom(m, n.kids, M1, F1, P1)
    BY <2>1, <2>2, <2>3, NetOf
  <2> QED
    BY <2>4 DEF NetFrom
<1>17. TrimmedIn(n, m, b)
  BY <1>2, <1>5, <1>6, <1>11, <1>16 DEF TrimmedIn
<1> QED
  BY <1>15, <1>17

LEMMA TrimmedFacts ==
    ASSUME NEW n, IsNet(n), NEW b \in Present(n), TypedBelow(n, b)
    PROVE  /\ Verifying(n, Trimmed(n, b), b, 0)
           /\ \A m \in Models : m # ModelOf(b) => Trimmed(n, b).model[m] = n.model[m]
<1>1. b \in Blocks /\ ModelOf(b) \in Models
  BY BlockKinds DEF Present
<1>2. PICK m, k : m = Trimmed(n, b) /\ k = Steps(n, b)
  OBVIOUS
<1>3. TrimmedIn(n, m, b)
  BY <1>2, TrimmedIs
<1>4. /\ IsNet(m) /\ m.kids = n.kids
      /\ m.model = [n.model EXCEPT ![ModelOf(b)] = Cut(@, k)]
      /\ m.flag = [n.flag EXCEPT ![ModelOf(b)] = TRUE]
  BY <1>2, <1>3 DEF TrimmedIn
<1>5. /\ \A c \in Blocks : c # b => m.param[c] = n.param[c]
      /\ \A j \in Index : m.param[b][j] = IF j < k THEN n.param[b][j] ELSE NULL
  BY <1>2, <1>3 DEF TrimmedIn
<1>6. n.model \in [Models -> [Index -> Default \cup {NULL}]] /\ n.flag \in [Models -> BOOLEAN]
  BY NetParts
<1>7. IsPrefix(b, b) /\ ~IsStrictPrefix(b, b)
  BY DEF IsPrefix, IsStrictPrefix
<1>8. \A j \in Models : j # ModelOf(b) => m.model[j] = n.model[j] /\ m.flag[j] = n.flag[j]
  BY <1>4, <1>6
<1>9. Frame(n, m, b)
  BY <1>5, <1>4, <1>7, <1>8 DEF Frame
<1>10. ASSUME NEW x \in Bindings(m), x[1] # b
       PROVE  x \in Bindings(n) /\ x[1] \in Blocks /\ x[2] \in Index /\ m.param[x[1]][x[2]] = n.param[x[1]][x[2]]
  <2>1. x[1] \in Blocks /\ x[1] # Universe /\ x[2] \in Index /\ x = <<x[1], x[2]>> /\ IsBound(m.param[x[1]][x[2]])
    BY <1>4, BindingFacts DEF Bindings
  <2>2. m.param[x[1]][x[2]] = n.param[x[1]][x[2]]
    BY <1>5, <1>4, <1>10, <2>1
  <2> QED
    BY <2>1, <2>2 DEF Bindings
<1>11. TypedBelow(m, b)
  BY <1>7, <1>10, SMTT(30) DEF TypedBelow
<1>12. Heard(n, m, b, 0)
  <2>1. ASSUME NEW x \in Apart(m), IsStrictPrefix(b, x[1])
        PROVE  x \in Apart(n) /\ m.param[x[1]][x[2]].arg \in Index
    <3>1. x \in Bindings(m)
      BY DEF Apart
    <3>2. x \in Bindings(n) /\ m.param[x[1]][x[2]] = n.param[x[1]][x[2]]
      BY <1>7, <1>10, <2>1, <3>1
    <3>3. PICK h, j : h = Front(x[1]) /\ j = m.param[x[1]][x[2]].arg
      OBVIOUS
    <3>4. h \in Blocks /\ j \in Index
      BY <1>4, <3>1, <3>3, BindingFacts
    <3>5. m.param[h][j] = n.param[h][j] \/ m.param[h][j] = NULL
      BY <1>5, <1>4, <3>4
    <3>6. Given(m, x) = m.param[h][j] /\ Given(n, x) = n.param[h][j]
      BY <3>2, <3>3 DEF Given
    <3> QED
      BY <2>1, <3>2, <3>3, <3>4, <3>5, <3>6, Zenon DEF Apart
  <2>2. \A k1 \in Index : ~(k1 < 0)
    BY Indexes
  <2> QED
    BY <2>1, <2>2 DEF Heard
<1>13. \A j \in Index : ~(j < 0)
  BY Indexes
<1>14. k \in Int
  BY <1>2, CountBound DEF Steps
<1>15. /\ \A j \in Index : 0 <= j /\ j < Steps(n, b) => m.param[b][j] = n.param[b][j]
       /\ \A j \in Index : Steps(n, b) <= j => m.param[b][j] = NULL
  BY <1>2, <1>5, <1>4, <1>14, Indexes
<1>16. b # Universe => \A j \in Index : ModelOrigin(n, m, b, 0, j)
  <2>1. b # Universe => ModelOf(b) - 1 \in Models /\ ModelOf(b) - 1 # ModelOf(b)
    <3>1. b # Universe => ModelOf(b) \in 1..2
      BY <1>1, BlockKinds, Paths
    <3> QED
      BY <3>1 DEF Models
  <2> QED
    BY <1>8, <2>1 DEF ModelOrigin
<1>17. Verifying(n, m, b, 0)
  BY <1>9, <1>11, <1>12, <1>13, <1>15, <1>16 DEF Verifying
<1> QED
  BY <1>2, <1>8, <1>17

LEMMA FrameTrans ==
    ASSUME NEW n0, NEW n, NEW m, NEW b, Frame(n0, n, b), Frame(n, m, b)
    PROVE  Frame(n0, m, b)
BY DEF Frame

LEMMA VerifyingStep ==
    ASSUME NEW n0, IsNet(n0), NEW b \in Present(n0), NEW i \in Index, NEW n, Verifying(n0, n, b, i),
           i < Steps(n0, b), NEW n1, NEW m, SlotVerified(n, n1, m, b, i, Creates(n0, b))
    PROVE  Verifying(n0, m, b, i + 1)
<1>1. /\ Frame(n0, n, b) /\ TypedBelow(n, b)
      /\ \A j \in Index : i <= j /\ j < Steps(n0, b) => n.param[b][j] = n0.param[b][j]
      /\ \A j \in Index : Steps(n0, b) <= j => n.param[b][j] = NULL
      /\ \A j \in Index : j < i => SlotOrigin(n0, n, b, i, j)
      /\ b # Universe => \A k \in Index : ModelOrigin(n0, n, b, i, k)
      /\ Heard(n0, n, b, i)
  BY DEF Verifying
<1>2. IsNet(n) /\ n.kids = n0.kids /\ b \in Present(n) /\ Creates(n0, b) \in BOOLEAN /\ b \in Blocks
  BY <1>1 DEF Frame, Present, Creates
<1>3. PICK create \in BOOLEAN : create = Creates(n0, b)
  BY <1>2
<1>4. SlotVerified(n, n1, m, b, i, create)
  BY <1>3
<1>5. /\ Frame(n, m, b)
      /\ \A j \in Index : j # i => m.param[b][j] = n.param[b][j]
      /\ TypedBelow(m, b)
  BY <1>1, <1>2, <1>4, StepFrame
<1>6. i \in Nat /\ Index \subseteq Nat /\ Steps(n0, b) \in Nat
  BY Indexes, CountBound DEF Steps
<1>7. Frame(n0, m, b)
  BY <1>1, <1>5, FrameTrans
<1>8. ASSUME NEW j \in Index, i + 1 <= j, j < Steps(n0, b)
      PROVE  m.param[b][j] = n0.param[b][j]
  <2>1. j # i /\ i <= j
    BY <1>6, <1>8
  <2> QED
    BY <1>1, <1>5, <1>8, <2>1
<1>9. ASSUME NEW j \in Index, Steps(n0, b) <= j
      PROVE  m.param[b][j] = NULL
  <2>1. j # i
    BY <1>6, <1>9
  <2> QED
    BY <1>1, <1>5, <1>9, <2>1
<1>10. ASSUME NEW k, Retyped(n0, n, b, i, k)
       PROVE  Retyped(n0, m, b, i + 1, k)
  <2>1. PICK j \in Index : /\ j < i /\ IsBound(n.param[b][j]) /\ n.param[b][j].arg = k
                           /\ n.param[b][j].type # n0.model[ModelOf(b) - 1][k].type
    BY <1>10 DEF Retyped
  <2>2. j # i /\ j < i + 1
    BY <1>6, <2>1
  <2>3. m.param[b][j] = n.param[b][j]
    BY <1>5, <2>2
  <2> QED
    BY <1>10, <2>1, <2>2, <2>3 DEF Retyped
<1>11. n0.param[b][i] = n.param[b][i]
  BY <1>1, <1>6
<1>12. ASSUME NEW k \in Index, b # Universe, create, IsBound(m.param[b][i]), m.param[b][i].arg = k,
              NEW q, q = n0.model[ModelOf(b) - 1][k], m.param[b][i].type # q.type
       PROVE  Retyped(n0, m, b, i + 1, k)
  <2>1. i < i + 1
    BY <1>6
  <2> QED
    BY <1>3, <1>12, <2>1 DEF Retyped
<1>13. SlotOrigin(n0, m, b, i + 1, i)
  <2>1. CASE ~IsBound(m.param[b][i])
    BY <2>1 DEF SlotOrigin
  <2>2. CASE IsBound(m.param[b][i])
    <3>1. PICK k : k = m.param[b][i].arg
      OBVIOUS
    <3>2. PICK q : q = n.model[ModelOf(b) - 1][k]
      OBVIOUS
    <3>3. PICK q0 : q0 = n0.model[ModelOf(b) - 1][k]
      OBVIOUS
    <3>4. q = n.model[ModelOf(b) - 1][m.param[b][i].arg]
      BY <3>1, <3>2
    <3>5. /\ IsBound(n.param[b][i]) /\ m.param[b][i].arg = n.param[b][i].arg
          /\ m.param[b][i].type # "arg"
          /\ \/ m.param[b][i] = n.param[b][i]
             \/ q = NULL
             \/ m.param[b][i].type = q.type /\ m.param[b][i].val = q.val
             \/ create /\ m.param[b][i].type # q.type
      BY <1>2, <1>4, <2>2, <3>4, StepSlot
    <3>6. b # Universe /\ k \in Index
      BY <1>2, <3>1, <3>5, ParamType, ParamFacts DEF IsBound
    <3>7. ModelOrigin(n0, n, b, i, k)
      BY <1>1, <3>6
    <3>8. CASE Retyped(n0, n, b, i, k)
      <4>1. Retyped(n0, m, b, i + 1, k)
        BY <1>10, <3>8
      <4> QED
        BY <1>11, <3>1, <3>5, <4>1 DEF SlotOrigin
    <3>9. CASE q0 = NULL
      BY <1>11, <3>1, <3>3, <3>5, <3>9 DEF SlotOrigin
    <3>10. CASE q = q0 /\ q0 # NULL
      <4>1. CASE create /\ m.param[b][i].type # q.type
        <5>1. Retyped(n0, m, b, i + 1, k)
          BY <1>12, <2>2, <3>1, <3>3, <3>6, <3>10, <4>1
        <5> QED
          BY <1>11, <3>1, <3>5, <5>1 DEF SlotOrigin
      <4>2. CASE m.param[b][i] = n.param[b][i]
        BY <1>11, <3>1, <3>5, <4>2, SMTT(30) DEF SlotOrigin
      <4>3. CASE m.param[b][i].type = q.type /\ m.param[b][i].val = q.val
        BY <1>11, <3>1, <3>3, <3>5, <3>10, <4>3 DEF SlotOrigin
      <4> QED
        BY <3>5, <3>10, <4>1, <4>2, <4>3
    <3> QED
      BY <3>2, <3>3, <3>7, <3>8, <3>9, <3>10 DEF ModelOrigin
  <2> QED
    BY <2>1, <2>2
<1>14. ASSUME NEW j \in Index, j < i
       PROVE  SlotOrigin(n0, m, b, i + 1, j)
  <2>1. j # i
    BY <1>6, <1>14
  <2>2. m.param[b][j] = n.param[b][j] /\ SlotOrigin(n0, n, b, i, j)
    BY <1>1, <1>5, <1>14, <2>1
  <2> QED
    BY <1>10, <2>2 DEF SlotOrigin
<1>15. \A j \in Index : j < i + 1 => SlotOrigin(n0, m, b, i + 1, j)
  <2>1. \A j \in Index : j < i + 1 => j < i \/ j = i
    BY <1>6
  <2> QED
    BY <1>13, <1>14, <2>1
<1>16. ASSUME b # Universe, NEW k \in Index
       PROVE  ModelOrigin(n0, m, b, i + 1, k)
  <2>1. PICK q, q0, q1 : /\ q = n.model[ModelOf(b) - 1][k]
                         /\ q0 = n0.model[ModelOf(b) - 1][k]
                         /\ q1 = m.model[ModelOf(b) - 1][k]
    OBVIOUS
  <2>2. ModelOrigin(n0, n, b, i, k)
    BY <1>1, <1>16
  <2>3. \/ q1 = q
        \/ q = NULL
        \/ create /\ IsBound(m.param[b][i]) /\ m.param[b][i].arg = k /\ m.param[b][i].type # q.type
    BY <1>2, <1>4, <1>16, <2>1, StepModel
  <2>4. CASE Retyped(n0, n, b, i, k)
    BY <1>10, <2>4 DEF ModelOrigin
  <2>5. CASE q0 = NULL
    BY <2>1, <2>5 DEF ModelOrigin
  <2>6. CASE q = q0 /\ q0 # NULL
    <3>1. CASE q1 = q
      BY <2>1, <2>6, <3>1 DEF ModelOrigin
    <3>2. CASE create /\ IsBound(m.param[b][i]) /\ m.param[b][i].arg = k /\ m.param[b][i].type # q.type
      <4>1. Retyped(n0, m, b, i + 1, k)
        BY <1>12, <1>16, <2>1, <2>6, <3>2
      <4> QED
        BY <4>1 DEF ModelOrigin
    <3> QED
      BY <2>3, <2>6, <3>1, <3>2
  <2> QED
    BY <2>1, <2>2, <2>4, <2>5, <2>6 DEF ModelOrigin
<1>17. ASSUME NEW x \in Apart(m), IsStrictPrefix(b, x[1])
       PROVE  x \in Apart(n0) /\ ~(Front(x[1]) = b /\ m.param[x[1]][x[2]].arg < i + 1)
  <2>1. x # <<b, i>>
    BY <1>17 DEF IsStrictPrefix
  <2>2. /\ x \in Apart(n)
        /\ m.param[x[1]][x[2]].arg = n.param[x[1]][x[2]].arg
        /\ ~(Front(x[1]) = b /\ n.param[x[1]][x[2]].arg = i)
    BY <1>1, <1>2, <1>4, <2>1, StepApart
  <2>3. x \in Apart(n0) /\ ~(Front(x[1]) = b /\ n.param[x[1]][x[2]].arg < i)
    BY <1>1, <1>17, <2>2 DEF Heard
  <2>4. n.param[x[1]][x[2]].arg \in Nat
    BY <1>2, <1>6, <2>2, BindingFacts DEF Apart
  <2> QED
    BY <1>6, <2>2, <2>3, <2>4
<1>18. Heard(n0, m, b, i + 1)
  BY <1>17 DEF Heard
<1> QED
  BY <1>5, <1>7, <1>8, <1>9, <1>15, <1>16, <1>18 DEF Verifying

LEMMA VerifyLoop ==
    ASSUME NEW n, IsNet(n), NEW b \in Present(n), TypedBelow(n, b), NEW N, N = Steps(n, b),
           NEW h, VerifyIs(h, n, b, N)
    PROVE  \A i \in 0..N : IF h[i].ok THEN Verifying(n, h[i].net, b, i)
                           ELSE Frame(n, h[i].net, b) /\ TypedBelow(h[i].net, b)
<1> DEFINE T == {i \in 0..N : IF h[i].ok THEN Verifying(n, h[i].net, b, i)
                              ELSE Frame(n, h[i].net, b) /\ TypedBelow(h[i].net, b)}
<1>1. N \in 0..MAX_PARAM /\ N \in Nat /\ MAX_PARAM \in Nat
  BY CountBound, Indexes DEF Steps
<1>2. \A i \in 0..N : h[i] = IF i = 0 THEN Result(TRUE, Trimmed(n, b))
                             ELSE Verified(h[i - 1], b, i - 1, Creates(n, b))
  BY DEF VerifyIs
<1>3. 0 \in T
  <2>1. 0 \in 0..N
    BY <1>1
  <2>2. h[0] = Result(TRUE, Trimmed(n, b))
    BY <1>2, <2>1
  <2>3. h[0].ok = TRUE /\ h[0].net = Trimmed(n, b)
    BY <2>2 DEF Result
  <2> QED
    BY <2>1, <2>3, TrimmedFacts
<1>4. ASSUME NEW i \in 0..(N - 1), i \in T
      PROVE  i + 1 \in T
  <2>1. i \in 0..N /\ i + 1 \in 0..N /\ i + 1 # 0 /\ (i + 1) - 1 = i /\ i \in Index /\ i < N
    BY <1>1 DEF Index
  <2>2. h[i + 1] = Verified(h[i], b, i, Creates(n, b))
    BY <1>2, <2>1
  <2>3. PICK r, s : r = h[i] /\ s = h[i + 1]
    OBVIOUS
  <2>4. IF r.ok THEN Verifying(n, r.net, b, i) ELSE Frame(n, r.net, b) /\ TypedBelow(r.net, b)
    BY <1>4, <2>3
  <2>5. CASE ~r.ok
    <3>1. s = r
      BY <2>2, <2>3, <2>5 DEF Verified
    <3> QED
      BY <2>1, <2>3, <2>4, <2>5, <3>1
  <2>6. CASE r.ok
    <3>1. PICK m : m = r.net
      OBVIOUS
    <3>2. Verifying(n, m, b, i)
      BY <2>4, <2>6, <3>1
    <3>3. IsNet(m) /\ b \in Present(m) /\ Creates(n, b) \in BOOLEAN
      BY <3>2 DEF Verifying, Frame, Present, Creates
    <3>4. s = Verified(Result(TRUE, m), b, i, Creates(n, b))
      BY <2>2, <2>3, <2>6, <3>1, Zenon DEF Verified, Result
    <3>5. IF s.ok THEN \E n1 : SlotVerified(m, n1, s.net, b, i, Creates(n, b)) ELSE s.net = m
      <4>1. PICK create \in BOOLEAN : create = Creates(n, b)
        BY <3>3
      <4>2. s = Verified(Result(TRUE, m), b, i, create)
        BY <3>4, <4>1
      <4>3. IF s.ok THEN \E n1 : SlotVerified(m, n1, s.net, b, i, create) ELSE s.net = m
        <5>1. Stepped(m, s, b, i, create)
          BY <2>1, <3>3, <4>2, StepVerified
        <5> QED
          BY <5>1 DEF Stepped
      <4> QED
        BY <4>1, <4>3
    <3>6. CASE s.ok
      <4>1. PICK n1 : SlotVerified(m, n1, s.net, b, i, Creates(n, b))
        BY <3>5, <3>6
      <4>2. Verifying(n, s.net, b, i + 1)
        BY <2>1, <3>2, <4>1, VerifyingStep
      <4> QED
        BY <2>1, <2>3, <3>6, <4>2
    <3>7. CASE ~s.ok
      <4>1. Frame(n, s.net, b) /\ TypedBelow(s.net, b)
        BY <3>2, <3>5, <3>7 DEF Verifying
      <4> QED
        BY <2>1, <2>3, <3>7, <4>1
    <3> QED
      BY <3>6, <3>7
  <2> QED
    BY <2>5, <2>6
<1> HIDE DEF T
<1>5. 0..N \subseteq T
  BY <1>1, <1>3, <1>4, AllUpTo
<1> QED
  BY <1>5 DEF T

TypedIn(n, b) ==
    \A x \in Bindings(n) : IsPrefix(b, x[1]) => n.param[x[1]][x[2]].type # "arg"

(* StartsApart, for any net to start from. *)
StartsFrom(n0, n, x) ==
    LET m == ModelOf(Front(x[1]))
        k == n.param[x[1]][x[2]].arg
        q == n0.model[m][k]
    IN \/ q = NULL
       \/ q.type # Given(n, x).type
       \/ q.val # Given(n, x).val
       \/ ~n0.flag[m] /\ \E i \in Index : /\ IsBound(n.param[x[1]][i])
                                         /\ n.param[x[1]][i].arg = k
                                         /\ n.param[x[1]][i].type # q.type

(* A parameter that has not the value of its argument, and had not. *)
StaysApart(n0, n, x) ==
    x \in Apart(n0) /\ n.param[x[1]][x[2]] = n0.param[x[1]][x[2]]

(* What of b and below it has not the value of its argument. *)
Settled(n0, n, b) ==
    \A x \in Apart(n) : IsPrefix(b, x[1]) =>
        \/ x[1] = b /\ (StaysApart(n0, n, x) \/ StartsFrom(n0, n, x))
        \/ x[1] # b /\ Front(x[1]) # b /\ x \in Apart(n0)

LEMMA VerifyFacts ==
    ASSUME NEW n, IsNet(n), NEW b \in Present(n), TypedBelow(n, b), NEW r, r = KrnVerifyParams(n, b)
    PROVE  /\ Frame(n, r.net, b) /\ TypedBelow(r.net, b)
           /\ r.ok => TypedIn(r.net, b) /\ Settled(n, r.net, b)
<1>1. PICK N : N = Steps(n, b)
  OBVIOUS
<1>2. N \in Nat /\ N \in 0..N
  BY <1>1, CountBound DEF Steps
<1>3. PICK h : VerifyIs(h, n, b, N) /\ r = h[N]
  BY <1>1, VerifyRun
<1>4. \A i \in 0..N : IF h[i].ok THEN Verifying(n, h[i].net, b, i)
                      ELSE Frame(n, h[i].net, b) /\ TypedBelow(h[i].net, b)
  BY <1>1, <1>3, VerifyLoop
<1>5. IF r.ok THEN Verifying(n, r.net, b, N) ELSE Frame(n, r.net, b) /\ TypedBelow(r.net, b)
  BY <1>2, <1>3, <1>4
<1>6. CASE ~r.ok
  BY <1>5, <1>6
<1>7. CASE r.ok
  <2>1. PICK m : m = r.net
    OBVIOUS
  <2>2. /\ Frame(n, m, b) /\ TypedBelow(m, b)
        /\ \A j \in Index : Steps(n, b) <= j => m.param[b][j] = NULL
        /\ \A j \in Index : j < N => SlotOrigin(n, m, b, N, j)
        /\ Heard(n, m, b, N)
    BY <1>5, <1>7, <2>1 DEF Verifying
  <2>3. IsNet(m) /\ b \in Blocks /\ \A j \in Index : j < N \/ N <= j
    BY <1>2, <2>2, Indexes DEF Frame, Present
  <2>4. ASSUME NEW j \in Index, IsBound(m.param[b][j])
        PROVE  SlotOrigin(n, m, b, N, j)
    BY <1>1, <2>2, <2>3, <2>4 DEF IsBound
  <2>5. ASSUME NEW x \in Bindings(m), x[1] = b
        PROVE  m.param[x[1]][x[2]].type # "arg"
    <3>1. x[2] \in Index /\ IsBound(m.param[b][x[2]])
      BY <2>5 DEF Bindings
    <3> QED
      BY <2>4, <2>5, <3>1 DEF SlotOrigin
  <2>6. TypedIn(m, b)
    BY <2>2, <2>5 DEF TypedIn, TypedBelow, IsStrictPrefix
  <2>7. ASSUME NEW x \in Apart(m), x[1] = b
        PROVE  StaysApart(n, m, x) \/ StartsFrom(n, m, x)
    <3>1. x \in Bindings(m) /\ Given(m, x) # NULL /\ Given(m, x).type = m.param[x[1]][x[2]].type
          /\ Given(m, x).val # m.param[x[1]][x[2]].val
      BY DEF Apart
    <3>2. PICK g, j, k : g = Front(b) /\ j = x[2] /\ k = m.param[b][j].arg
      OBVIOUS
    <3>3. b # Universe /\ j \in Index /\ k \in Index /\ g \in Blocks /\ x = <<b, j>> /\ IsBound(m.param[b][j])
      BY <2>3, <2>7, <3>1, <3>2, BindingFacts DEF Bindings
    <3>4. SlotOrigin(n, m, b, N, j)
      BY <2>4, <3>3
    <3>5. PICK q : q = n.model[ModelOf(b) - 1][k]
      OBVIOUS
    <3>6. /\ IsBound(n.param[b][j]) /\ n.param[b][j].arg = k
          /\ \/ m.param[b][j] = n.param[b][j]
             \/ q = NULL
             \/ m.param[b][j].type = q.type /\ m.param[b][j].val = q.val
             \/ Retyped(n, m, b, N, k)
      BY <3>2, <3>3, <3>4, <3>5, Zenon DEF SlotOrigin
    <3>7. ModelOf(g) = ModelOf(b) - 1
      <4>1. b \in Galaxy \/ b \in Star
        BY <2>3, <3>3, BlockKinds
      <4>2. CASE b \in Galaxy
        BY <3>2, <4>2, Paths
      <4>3. CASE b \in Star
        BY <3>2, <4>3, BlockKinds, Paths
      <4> QED
        BY <4>1, <4>2, <4>3
    <3>8. m.param[g] = n.param[g]
      <4>1. ~IsPrefix(b, g)
        <5>1. b # Front(g) /\ b # g
          BY <2>3, <3>2, <3>3, BlockKinds, Paths
        <5> QED
          BY <2>3, <3>3, <5>1, PrefixOf
      <4> QED
        BY <2>2, <3>3, <4>1 DEF Frame
    <3>9. Given(m, x) = m.param[g][k] /\ Given(n, x) = m.param[g][k]
      BY <2>7, <3>2, <3>6, <3>8 DEF Given
    <3>10. CASE m.param[b][j] = n.param[b][j]
      <4>1. x \in Bindings(n)
        BY <3>1, <3>2, <3>3, <3>6, SMTT(30) DEF Bindings
      <4>2. x \in Apart(n)
        BY <2>7, <3>1, <3>2, <3>9, <3>10, <4>1 DEF Apart
      <4> QED
        BY <2>7, <3>2, <3>10, <4>2 DEF StaysApart
    <3>11. CASE q = NULL
      BY <2>7, <3>2, <3>5, <3>7, <3>11 DEF StartsFrom
    <3>12. CASE m.param[b][j].type = q.type /\ m.param[b][j].val = q.val
      <4>1. q.val # Given(m, x).val
        BY <2>7, <3>1, <3>2, <3>12
      <4> QED
        BY <2>7, <3>2, <3>5, <3>7, <4>1, Zenon DEF StartsFrom
    <3>13. CASE Retyped(n, m, b, N, k)
      <4>1. PICK i \in Index : /\ IsBound(m.param[b][i]) /\ m.param[b][i].arg = k
                               /\ m.param[b][i].type # q.type
        BY <3>5, <3>13 DEF Retyped
      <4>2. ~n.flag[ModelOf(b) - 1]
        BY <3>13 DEF Retyped, Creates
      <4> QED
        BY <2>7, <3>2, <3>5, <3>7, <4>1, <4>2, Zenon DEF StartsFrom
    <3> QED
      BY <3>6, <3>10, <3>11, <3>12, <3>13
  <2>8. ASSUME NEW x \in Apart(m), IsStrictPrefix(b, x[1])
        PROVE  Front(x[1]) # b /\ x \in Apart(n)
    <3>1. x \in Apart(n) /\ ~(Front(x[1]) = b /\ m.param[x[1]][x[2]].arg < N)
      BY <2>2, <2>8 DEF Heard
    <3>2. x \in Bindings(m) /\ Given(m, x) # NULL
      BY DEF Apart
    <3>3. m.param[x[1]][x[2]].arg \in Index
      BY <2>3, <3>2, BindingFacts
    <3>4. ASSUME Front(x[1]) = b
          PROVE  FALSE
      <4>1. N <= m.param[x[1]][x[2]].arg
        BY <2>3, <3>1, <3>3, <3>4
      <4>2. m.param[b][m.param[x[1]][x[2]].arg] = NULL
        BY <1>1, <2>2, <3>3, <4>1
      <4> QED
        BY <3>2, <3>4, <4>2 DEF Given
    <3> QED
      BY <3>1, <3>4
  <2>9. Settled(n, m, b)
    BY <2>7, <2>8 DEF Settled, IsStrictPrefix
  <2> QED
    BY <2>1, <2>2, <2>6, <2>9
<1> QED
  BY <1>6, <1>7

-----------------------------------------------------------------------------
(* Blocks that come and go. *)

(* A sequence without its i-th place. *)
LEMMA Shortened ==
    ASSUME NEW S, NEW s \in Seq(S), NEW i \in 1..Len(s)
    PROVE  /\ RemoveAt(s, i) \in Seq(S)
           /\ Len(RemoveAt(s, i)) = Len(s) - 1
           /\ \A k \in 1..(Len(s) - 1) : RemoveAt(s, i)[k] = IF k < i THEN s[k] ELSE s[k + 1]
<1>0. Len(s) \in Nat /\ \A k \in 1..Len(s) : s[k] \in S
  OBVIOUS
<1> DEFINE n == Len(s)
           u == SubSeq(s, 1, i - 1)
           v == SubSeq(s, i + 1, n)
<1>1. u \in Seq(S) /\ Len(u) = i - 1 /\ \A k \in 1..(i - 1) : u[k] = s[k]
  <2>1. 1 \in Int /\ i - 1 \in Int /\ \A k \in 1..(i - 1) : s[k] \in S
    BY <1>0
  <2>2. /\ u \in Seq(S) /\ Len(u) = IF 1 <= i - 1 THEN (i - 1) - 1 + 1 ELSE 0
        /\ \A k \in 1..((i - 1) - 1 + 1) : u[k] = s[1 + k - 1]
    BY <2>1, SubSeqProperties
  <2> QED
    BY <2>2
<1>2. v \in Seq(S) /\ Len(v) = n - i /\ \A k \in 1..(n - i) : v[k] = s[i + k]
  <2>1. i + 1 \in Int /\ n \in Int /\ \A k \in (i + 1)..n : s[k] \in S
    BY <1>0
  <2>2. /\ v \in Seq(S) /\ Len(v) = IF i + 1 <= n THEN n - (i + 1) + 1 ELSE 0
        /\ \A k \in 1..(n - (i + 1) + 1) : v[k] = s[(i + 1) + k - 1]
    BY <2>1, SubSeqProperties
  <2> QED
    BY <1>0, <2>2
<1>3. RemoveAt(s, i) = u \o v
  BY DEF RemoveAt
<1> HIDE DEF u, v
<1>4. /\ u \o v \in Seq(S) /\ Len(u \o v) = Len(u) + Len(v)
      /\ \A k \in 1..(Len(u) + Len(v)) :
           (u \o v)[k] = IF k <= Len(u) THEN u[k] ELSE v[k - Len(u)]
  BY <1>1, <1>2, ConcatProperties
<1>5. ASSUME NEW k \in 1..(n - 1)
      PROVE  (u \o v)[k] = IF k < i THEN s[k] ELSE s[k + 1]
  <2>1. CASE k < i
    BY <1>0, <1>1, <1>2, <1>4, <2>1
  <2>2. CASE ~(k < i)
    <3>1. k - (i - 1) \in 1..(n - i) /\ i + (k - (i - 1)) = k + 1
      BY <1>0, <2>2
    <3>2. (u \o v)[k] = v[k - (i - 1)]
      BY <1>0, <1>1, <1>2, <1>4, <2>2
    <3> QED
      BY <1>2, <2>2, <3>1, <3>2
  <2> QED
    BY <2>1, <2>2
<1> QED
  BY <1>0, <1>1, <1>2, <1>3, <1>4, <1>5

LEMMA FirstPlace ==
    ASSUME NEW S, NEW s \in Seq(S), NEW e, e \in Range(s)
    PROVE  \E i \in 1..Len(s) : s[i] = e /\ RemoveFirst(s, e) = RemoveAt(s, i)
<1>1. Len(s) \in Nat /\ DOMAIN s = 1..Len(s)
  OBVIOUS
<1>2. PICK I : I = {i \in 1..Len(s) : s[i] = e}
  OBVIOUS
<1>3. I \in SUBSET Nat /\ I # {} /\ \E i \in 1..Len(s) : s[i] = e
  BY <1>1, <1>2 DEF Range
<1>4. \E x \in I : \A y \in I : x <= y
  BY <1>3, LeastNumber
<1>5. PICK i : i = CHOOSE x \in I : \A y \in I : x <= y
  OBVIOUS
<1>6. i \in I
  BY <1>4, <1>5
<1>7. SelectInSeq(s, LAMBDA v : v = e) = i
  BY <1>2, <1>3, <1>5 DEF SelectInSeq, Min
<1>8. RemoveFirst(s, e) = RemoveAt(s, i)
  BY <1>3, <1>7 DEF RemoveFirst
<1> QED
  BY <1>2, <1>6, <1>8

LEMMA Removed ==
    ASSUME NEW S, NEW s \in Seq(S), IsInjective(s), NEW e, e \in Range(s)
    PROVE  /\ RemoveFirst(s, e) \in Seq(S)
           /\ IsInjective(RemoveFirst(s, e))
           /\ Range(RemoveFirst(s, e)) = Range(s) \ {e}
<1>1. PICK i \in 1..Len(s) : s[i] = e /\ RemoveFirst(s, e) = RemoveAt(s, i)
  BY FirstPlace
<1>2. PICK t : t = RemoveFirst(s, e)
  OBVIOUS
<1>3. /\ t \in Seq(S) /\ Len(t) = Len(s) - 1
      /\ \A k \in 1..(Len(s) - 1) : t[k] = IF k < i THEN s[k] ELSE s[k + 1]
  <2>1. /\ RemoveAt(s, i) \in Seq(S)
        /\ Len(RemoveAt(s, i)) = Len(s) - 1
        /\ \A k \in 1..(Len(s) - 1) : RemoveAt(s, i)[k] = IF k < i THEN s[k] ELSE s[k + 1]
    BY Shortened
  <2> QED
    BY <1>1, <1>2, <2>1
<1>4. DOMAIN t = 1..(Len(s) - 1) /\ DOMAIN s = 1..Len(s) /\ Len(s) \in Nat
  BY <1>3
<1>5. \A j, k \in 1..Len(s) : s[j] = s[k] => j = k
  BY <1>4 DEF IsInjective
<1>6. ASSUME NEW j \in DOMAIN t, NEW k \in DOMAIN t, t[j] = t[k]
      PROVE  j = k
  BY <1>3, <1>4, <1>5, <1>6
<1>7. ASSUME NEW k \in DOMAIN t
      PROVE  t[k] \in Range(s) \ {e}
  <2>1. PICK j : j = IF k < i THEN k ELSE k + 1
    OBVIOUS
  <2>2. j \in 1..Len(s) /\ j # i /\ t[k] = s[j]
    BY <1>3, <1>4, <2>1
  <2>3. s[j] # e
    BY <1>1, <1>5, <2>2
  <2> QED
    BY <1>4, <2>2, <2>3 DEF Range
<1>8. ASSUME NEW k \in DOMAIN s, s[k] # e
      PROVE  s[k] \in Range(t)
  <2>1. CASE k < i
    <3>1. k \in DOMAIN t /\ t[k] = s[k]
      BY <1>3, <1>4, <2>1
    <3> QED
      BY <3>1 DEF Range
  <2>2. CASE k > i
    <3>1. k - 1 \in DOMAIN t /\ t[k - 1] = s[k]
      BY <1>3, <1>4, <2>2
    <3> QED
      BY <3>1 DEF Range
  <2> QED
    BY <1>1, <1>4, <1>8, <2>1, <2>2
<1>9. IsInjective(t)
  BY <1>6 DEF IsInjective
<1>10. Range(t) = Range(s) \ {e}
  BY <1>7, <1>8 DEF Range
<1> QED
  BY <1>2, <1>3, <1>9, <1>10

LEMMA Appended ==
    ASSUME NEW S, NEW s \in Seq(S), IsInjective(s), NEW e \in S, e \notin Range(s)
    PROVE  /\ Append(s, e) \in Seq(S)
           /\ IsInjective(Append(s, e))
           /\ Range(Append(s, e)) = Range(s) \cup {e}
<1>1. PICK t : t = Append(s, e)
  OBVIOUS
<1>2. /\ t \in Seq(S) /\ Len(t) = Len(s) + 1 /\ t[Len(s) + 1] = e
      /\ \A i \in 1..Len(s) : t[i] = s[i]
  BY <1>1, AppendProperties
<1>3. DOMAIN t = 1..(Len(s) + 1) /\ DOMAIN s = 1..Len(s) /\ Len(s) \in Nat
  BY <1>2
<1>4. \A j, k \in 1..Len(s) : s[j] = s[k] => j = k
  BY <1>3 DEF IsInjective
<1>5. \A j \in 1..Len(s) : s[j] # e
  BY <1>3 DEF Range
<1>6. ASSUME NEW j \in DOMAIN t, NEW k \in DOMAIN t, t[j] = t[k]
      PROVE  j = k
  BY <1>2, <1>3, <1>4, <1>5, <1>6
<1>7. IsInjective(t)
  BY <1>6 DEF IsInjective
<1>8. ASSUME NEW k \in DOMAIN t
      PROVE  t[k] \in Range(s) \cup {e}
  BY <1>2, <1>3 DEF Range
<1>9. ASSUME NEW k \in DOMAIN s
      PROVE  s[k] \in Range(t)
  <2>1. k \in DOMAIN t /\ t[k] = s[k]
    BY <1>2, <1>3
  <2> QED
    BY <2>1 DEF Range
<1>10. e \in Range(t)
  <2>1. Len(s) + 1 \in DOMAIN t
    BY <1>3
  <2> QED
    BY <1>2, <2>1 DEF Range
<1>11. Range(t) = Range(s) \cup {e}
  BY <1>8, <1>9, <1>10 DEF Range
<1> QED
  BY <1>1, <1>2, <1>7, <1>11

CreatedIn(n, m, b) ==
    /\ IsNet(m) /\ b \in Present(m) /\ m.model = n.model /\ m.flag = n.flag
    /\ \A c \in Blocks : c # b => m.param[c] = n.param[c]
    /\ \A i \in Index : m.param[b][i] \in LineParams \cup {NULL}
    /\ \A c \in Blocks : c # Front(b) => m.kids[c] = n.kids[c]
    /\ Range(m.kids[Front(b)]) = Range(n.kids[Front(b)]) \cup {b}

LEMMA CreatedFacts ==
    ASSUME NEW n, IsNet(n), NEW b \in Blocks, b # Universe, b \notin Present(n), Front(b) \in Present(n),
           NEW params \in Seq(LineParams), NEW m, m = Created(n, b, params)
    PROVE  CreatedIn(n, m, b)
<1>1. PICK K, M, F, P : n = [kids |-> K, model |-> M, flag |-> F, param |-> P]
  BY NetParts
<1>2. K = n.kids /\ M = n.model /\ F = n.flag /\ P = n.param
  BY <1>1
<1>3. PICK g : g = Front(b)
  OBVIOUS
<1>4. g \in Blocks /\ g # b
  BY <1>3, BlockKinds, Paths
<1>5. /\ K \in [Blocks -> Seq(Blocks \ {Universe})] /\ P \in [Blocks -> Table]
      /\ M \in [Models -> [Index -> Default \cup {NULL}]] /\ F \in [Models -> BOOLEAN]
  BY <1>2, NetParts
<1>6. PICK t : t = [i \in Index |-> IF i < Len(params) THEN params[i + 1] ELSE NULL]
  OBVIOUS
<1>7. \A i \in Index : t[i] \in LineParams \cup {NULL}
  <2>1. ASSUME NEW i \in Index, i < Len(params)
        PROVE  params[i + 1] \in LineParams
    <3>1. i + 1 \in 1..Len(params)
      BY <2>1, Indexes
    <3> QED
      BY <3>1
  <2> QED
    BY <1>6, <2>1
<1>8. t \in Table
  <2>1. LineParams \subseteq Param
    BY DEF LineParams
  <2> QED
    BY <1>6, <1>7, <2>1 DEF Table
<1>9. PICK K1 : K1 = [K EXCEPT ![g] = Append(@, b)]
  OBVIOUS
<1>10. PICK P1 : P1 = [P EXCEPT ![b] = t]
  OBVIOUS
<1>11. b \notin Range(K[g])
  BY <1>2, <1>3 DEF Present
<1>12. /\ Append(K[g], b) \in Seq(Blocks \ {Universe})
       /\ IsInjective(Append(K[g], b))
       /\ Range(Append(K[g], b)) = Range(K[g]) \cup {b}
  <2>1. K[g] \in Seq(Blocks \ {Universe}) /\ IsInjective(K[g]) /\ b \in Blocks \ {Universe}
    BY <1>2, <1>4, NetFields
  <2> QED
    BY <1>11, <2>1, Appended
<1>13. K1 \in [Blocks -> Seq(Blocks \ {Universe})] /\ P1 \in [Blocks -> Table]
  BY <1>4, <1>5, <1>8, <1>9, <1>10, <1>12
<1>14. /\ \A c \in Blocks : c # g => K1[c] = K[c]
       /\ K1[g] = Append(K[g], b)
       /\ \A c \in Blocks : c # b => P1[c] = P[c]
       /\ P1[b] = t
  BY <1>4, <1>5, <1>9, <1>10
<1>15. TreeOK(K, P)
  BY <1>2, NetTree
<1>16. TreeOK(K1, P1)
  <2>1. \A i \in Index : ~IsBound(P1[Universe][i])
    BY <1>14, <1>15, Paths DEF TreeOK
  <2>2. ASSUME NEW c \in Blocks
        PROVE  IsInjective(K1[c]) /\ \A d \in Range(K1[c]) : Front(d) = c
    BY <1>3, <1>12, <1>14, <1>15 DEF TreeOK
  <2>3. ASSUME NEW c \in Blocks, c # Universe, c \notin Range(K1[Front(c)])
        PROVE  K1[c] = <<>> /\ P1[c] = None
    <3>1. c # b
      BY <1>3, <1>12, <1>14, <2>3
    <3>2. c \notin Range(K[Front(c)]) /\ Front(c) \in Blocks
      BY <1>12, <1>14, <2>3, BlockKinds, Paths
    <3>3. K[c] = <<>> /\ P[c] = None
      BY <1>15, <2>3, <3>2 DEF TreeOK
    <3>4. c # g
      <4>1. g = Universe \/ g \in Range(K[Front(g)])
        BY <1>2, <1>3 DEF Present
      <4> QED
        BY <2>3, <3>2, <4>1
    <3> QED
      BY <1>14, <3>1, <3>3, <3>4
  <2> QED
    BY <2>1, <2>2, <2>3 DEF TreeOK
<1>17. m = NetRecord(K1, M, F, P1)
  <2>1. m = [n EXCEPT !.kids[g] = Append(@, b), !.param[b] = t]
    BY <1>3, <1>6 DEF Created
  <2> QED
    BY <1>1, <1>9, <1>10, <2>1 DEF NetRecord
<1>18. m.kids = K1 /\ m.model = M /\ m.flag = F /\ m.param = P1 /\ IsNet(m)
  <2>1. NetTypes(K1, M, F, P1)
    BY <1>5, <1>13 DEF NetTypes
  <2>2. NetFrom(m, K1, M, F, P1)
    BY <1>16, <1>17, <2>1, NetOf
  <2> QED
    BY <2>2 DEF NetFrom
<1>19. b \in Present(m)
  BY <1>3, <1>12, <1>14, <1>18 DEF Present
<1> QED
  BY <1>2, <1>3, <1>7, <1>12, <1>14, <1>18, <1>19 DEF CreatedIn

RemovedIn(n, m, g) ==
    /\ IsNet(m) /\ m.model = n.model /\ m.flag = n.flag
    /\ \A c \in Blocks : IF IsStrictPrefix(g, c) THEN m.param[c] = None ELSE m.param[c] = n.param[c]
    /\ \A c \in Blocks : IF IsPrefix(g, c) THEN m.kids[c] = <<>> ELSE m.kids[c] = n.kids[c]
    /\ Present(m) = {c \in Present(n) : ~IsStrictPrefix(g, c)}

LEMMA RemoveChildrenFacts ==
    ASSUME NEW n, IsNet(n), NEW g \in Blocks, NEW m, m = RemoveChildren(n, g)
    PROVE  RemovedIn(n, m, g)
<1>1. PICK K, M, F, P : n = [kids |-> K, model |-> M, flag |-> F, param |-> P]
  BY NetParts
<1>2. K = n.kids /\ M = n.model /\ F = n.flag /\ P = n.param
  BY <1>1
<1>3. PICK below : below = {b \in Blocks : IsStrictPrefix(g, b)}
  OBVIOUS
<1>4. PICK K1 : K1 = [b \in Blocks |-> IF b \in below \cup {g} THEN <<>> ELSE K[b]]
  OBVIOUS
<1>5. PICK P1 : P1 = [b \in Blocks |-> IF b \in below THEN None ELSE P[b]]
  OBVIOUS
<1>6. m = NetRecord(K1, M, F, P1)
  <2>1. m = [n EXCEPT !.kids = [b \in Blocks |-> IF b \in below \cup {g} THEN <<>> ELSE n.kids[b]],
                      !.param = [b \in Blocks |-> IF b \in below THEN None ELSE n.param[b]]]
    BY <1>3 DEF RemoveChildren
  <2> QED
    <3>1. /\ K1 = [b \in Blocks |-> IF b \in below \cup {g} THEN <<>> ELSE n.kids[b]]
          /\ P1 = [b \in Blocks |-> IF b \in below THEN None ELSE n.param[b]]
      BY <1>2, <1>4, <1>5
    <3>2. m = [n EXCEPT !.kids = K1, !.param = P1]
      BY <2>1, <3>1
    <3> QED
      BY <1>1, <3>2 DEF NetRecord
<1>7. /\ K \in [Blocks -> Seq(Blocks \ {Universe})] /\ P \in [Blocks -> Table]
      /\ M \in [Models -> [Index -> Default \cup {NULL}]] /\ F \in [Models -> BOOLEAN]
      /\ TreeOK(K, P)
  BY <1>2, NetParts, NetTree
<1>8. K1 \in [Blocks -> Seq(Blocks \ {Universe})] /\ P1 \in [Blocks -> Table]
  <2>1. None \in Table
    BY DEF None, Table
  <2> QED
    BY <1>4, <1>5, <1>7, <2>1
<1>9. \A b \in Blocks : b \in below \cup {g} <=> IsPrefix(g, b)
  <2>1. IsPrefix(g, g)
    BY DEF IsPrefix
  <2> QED
    BY <1>3, <2>1 DEF IsStrictPrefix
<1>10. ASSUME NEW c \in Blocks, c # Universe
       PROVE  c \in Range(K1[Front(c)]) <=> c \in Range(K[Front(c)]) /\ c \notin below
  <2>1. Front(c) \in Blocks
    BY BlockKinds, Paths
  <2>2. IsPrefix(g, Front(c)) <=> IsStrictPrefix(g, c)
    <3>1. IsStrictPrefix(g, c) <=> (g = Universe \/ g = Front(c))
      BY <1>10, StrictPrefixOf
    <3>2. IsPrefix(g, Front(c)) <=> g = Front(c) \/ (Front(c) # Universe /\ (g = Universe \/ g = Front(Front(c))))
      BY <2>1, PrefixOf
    <3>3. Front(Front(c)) = Universe
      BY BlockKinds, Paths
    <3> QED
      BY <3>1, <3>2, <3>3
  <2>3. CASE c \in below
    <3>1. K1[Front(c)] = <<>>
      BY <1>3, <1>4, <1>9, <2>1, <2>2, <2>3
    <3>2. c \notin Range(K1[Front(c)])
      BY <3>1 DEF Range
    <3> QED
      BY <2>3, <3>2
  <2>4. CASE c \notin below
    <3>1. K1[Front(c)] = K[Front(c)]
      BY <1>3, <1>4, <1>9, <2>1, <2>2, <2>4
    <3> QED
      BY <2>4, <3>1
  <2> QED
    BY <2>3, <2>4
<1>11. TreeOK(K1, P1)
  <2>1. \A i \in Index : ~IsBound(P1[Universe][i])
    BY <1>5, <1>7, Paths DEF TreeOK, None, IsBound
  <2>2. ASSUME NEW c \in Blocks
        PROVE  IsInjective(K1[c]) /\ \A d \in Range(K1[c]) : Front(d) = c
    <3>1. CASE K1[c] = <<>>
      BY <3>1 DEF IsInjective, Range
    <3>2. CASE K1[c] = K[c]
      BY <1>7, <3>2 DEF TreeOK
    <3> QED
      BY <1>4, <3>1, <3>2
  <2>3. ASSUME NEW c \in Blocks, c # Universe, c \notin Range(K1[Front(c)])
        PROVE  K1[c] = <<>> /\ P1[c] = None
    <3>1. CASE c \in below
      BY <1>4, <1>5, <3>1
    <3>2. CASE c \notin below
      <4>1. K[c] = <<>> /\ P[c] = None
        BY <1>7, <1>10, <2>3, <3>2 DEF TreeOK
      <4> QED
        BY <1>4, <1>5, <4>1
    <3> QED
      BY <3>1, <3>2
  <2> QED
    BY <2>1, <2>2, <2>3 DEF TreeOK
<1>12. m.kids = K1 /\ m.model = M /\ m.flag = F /\ m.param = P1 /\ IsNet(m)
  <2>1. NetTypes(K1, M, F, P1)
    BY <1>7, <1>8 DEF NetTypes
  <2>2. NetFrom(m, K1, M, F, P1)
    BY <1>6, <1>11, <2>1, NetOf
  <2> QED
    BY <2>2 DEF NetFrom
<1>13. Present(m) = {c \in Present(n) : ~IsStrictPrefix(g, c)}
  <2>1. ~IsStrictPrefix(g, Universe)
    BY Paths, StrictPrefixOf
  <2> QED
    BY <1>2, <1>3, <1>10, <1>12, <2>1 DEF Present
<1> QED
  BY <1>2, <1>3, <1>4, <1>5, <1>9, <1>12, <1>13 DEF RemovedIn

LEMMA RemoveBlockFacts ==
    ASSUME NEW n, IsNet(n), NEW b \in Present(n), b # Universe, NEW m, m = RemoveBlock(n, b)
    PROVE  /\ IsNet(m)
           /\ \A c \in Blocks : IF IsPrefix(b, c) THEN m.param[c] = None ELSE m.param[c] = n.param[c]
           /\ m.model = n.model
           /\ \A c \in Blocks : Range(m.kids[c]) \subseteq Range(n.kids[c]) \ {b}
<1>1. b \in Blocks
  BY DEF Present
<1>2. PICK r : r = RemoveChildren(n, b)
  OBVIOUS
<1>3. /\ IsNet(r) /\ r.model = n.model
      /\ \A c \in Blocks : IF IsStrictPrefix(b, c) THEN r.param[c] = None ELSE r.param[c] = n.param[c]
      /\ \A c \in Blocks : IF IsPrefix(b, c) THEN r.kids[c] = <<>> ELSE r.kids[c] = n.kids[c]
      /\ Present(r) = {c \in Present(n) : ~IsStrictPrefix(b, c)}
  BY <1>1, <1>2, RemoveChildrenFacts DEF RemovedIn
<1>4. IsPrefix(b, b) /\ ~IsStrictPrefix(b, b)
  BY DEF IsPrefix, IsStrictPrefix
<1>5. PICK g : g = Front(b)
  OBVIOUS
<1>6. g \in Blocks /\ g # b /\ b \in Range(r.kids[g])
  <2>1. b \in Present(r)
    BY <1>3, <1>4
  <2> QED
    BY <1>1, <1>5, <2>1, BlockKinds, Paths DEF Present
<1>7. PICK K, M, F, P : r = [kids |-> K, model |-> M, flag |-> F, param |-> P]
  BY <1>3, NetParts
<1>8. K = r.kids /\ M = r.model /\ F = r.flag /\ P = r.param
  BY <1>7
<1>9. PICK K1 : K1 = [K EXCEPT ![g] = RemoveFirst(@, b)]
  OBVIOUS
<1>10. PICK P1 : P1 = [P EXCEPT ![b] = None]
  OBVIOUS
<1>11. m = NetRecord(K1, M, F, P1)
  <2>1. m = [r EXCEPT !.param[b] = None, !.kids[g] = RemoveFirst(@, b)]
    BY <1>2, <1>5 DEF RemoveBlock
  <2> QED
    BY <1>7, <1>9, <1>10, <2>1 DEF NetRecord
<1>12. NetTypes(K, M, F, P) /\ TreeOK(K, P)
  BY <1>3, <1>8, NetParts, NetTree DEF NetTypes
<1>13. /\ RemoveFirst(K[g], b) \in Seq(Blocks \ {Universe})
       /\ IsInjective(RemoveFirst(K[g], b))
       /\ Range(RemoveFirst(K[g], b)) = Range(K[g]) \ {b}
  <2>1. K[g] \in Seq(Blocks \ {Universe}) /\ IsInjective(K[g]) /\ b \in Range(K[g])
    BY <1>6, <1>8, <1>12 DEF NetTypes, TreeOK
  <2> QED
    BY <2>1, Removed
<1>14. /\ K1[g] = RemoveFirst(K[g], b)
       /\ \A c \in Blocks : c # g => K1[c] = K[c]
       /\ P1[b] = None
       /\ \A c \in Blocks : c # b => P1[c] = P[c]
  BY <1>1, <1>6, <1>9, <1>10, <1>12 DEF NetTypes
<1>15. NetTypes(K1, M, F, P1)
  <2>1. None \in Table
    BY DEF None, Table
  <2> QED
    BY <1>6, <1>9, <1>10, <1>12, <1>13, <2>1 DEF NetTypes
<1>16. TreeOK(K1, P1)
  <2>1. \A i \in Index : ~IsBound(P1[Universe][i])
    BY <1>12, <1>14, Paths DEF TreeOK
  <2>2. ASSUME NEW c \in Blocks
        PROVE  IsInjective(K1[c]) /\ \A d \in Range(K1[c]) : Front(d) = c
    BY <1>12, <1>13, <1>14 DEF TreeOK
  <2>3. ASSUME NEW c \in Blocks, c # Universe, c \notin Range(K1[Front(c)])
        PROVE  K1[c] = <<>> /\ P1[c] = None
    <3>0. Front(c) \in Blocks
      BY BlockKinds, Paths
    <3>1. CASE c = b
      <4>1. K[b] = <<>>
        BY <1>1, <1>3, <1>4, <1>8
      <4> QED
        BY <1>1, <1>6, <1>14, <3>1, <4>1
    <3>2. CASE c # b
      <4>1. c \notin Range(K[Front(c)])
        BY <1>13, <1>14, <2>3, <3>0, <3>2
      <4>2. K[c] = <<>> /\ P[c] = None
        BY <1>12, <2>3, <4>1 DEF TreeOK
      <4>3. c # g
        <5>1. b \notin Range(K[c])
          BY <4>2 DEF Range
        <5> QED
          BY <1>6, <1>8, <5>1
      <4> QED
        BY <1>14, <3>2, <4>2, <4>3
    <3> QED
      BY <3>1, <3>2
  <2> QED
    BY <2>1, <2>2, <2>3 DEF TreeOK
<1>17. NetFrom(m, K1, M, F, P1)
  BY <1>11, <1>15, <1>16, NetOf
<1>18. IsNet(m) /\ m.kids = K1 /\ m.model = n.model /\ m.param = P1
  BY <1>3, <1>8, <1>17 DEF NetFrom
<1>19. ASSUME NEW c \in Blocks
       PROVE  IF IsPrefix(b, c) THEN m.param[c] = None ELSE m.param[c] = n.param[c]
  <2>1. CASE c = b
    BY <1>4, <1>14, <1>18, <2>1
  <2>2. CASE c # b
    BY <1>3, <1>8, <1>14, <1>18, <2>2 DEF IsStrictPrefix
  <2> QED
    BY <2>1, <2>2
<1>20. ASSUME NEW c \in Blocks
       PROVE  Range(m.kids[c]) \subseteq Range(n.kids[c]) \ {b}
  <2>1. Range(K[c]) \subseteq Range(n.kids[c])
    <3>1. CASE IsPrefix(b, c)
      <4>1. K[c] = <<>>
        BY <1>3, <1>8, <3>1
      <4> QED
        BY <4>1 DEF Range
    <3>2. CASE ~IsPrefix(b, c)
      BY <1>3, <1>8, <3>2
    <3> QED
      BY <3>1, <3>2
  <2>2. c # g => b \notin Range(K[c])
    BY <1>5, <1>12 DEF TreeOK
  <2> QED
    BY <1>13, <1>14, <1>18, <2>1, <2>2
<1> QED
  BY <1>18, <1>19, <1>20

LEMMA EmptiedFacts ==
    ASSUME NEW n, IsNet(n), NEW g \in Present(n), NEW f, NEW names, IsFile(f, names),
           NEW m, m = Emptied(f, n, g)
    PROVE  /\ IsNet(m) /\ g \in Present(m)
           /\ \A c \in Blocks : ~IsPrefix(g, c) => m.param[c] = n.param[c] /\ m.kids[c] = n.kids[c]
           /\ \A c \in Blocks : IsStrictPrefix(g, c) => m.param[c] = None
           /\ g # Universe => m.param[g] = n.param[g]
           /\ m.kids[g] = <<>>
           /\ \A k \in Models : k # ModelOf(g) => m.model[k] = n.model[k] /\ m.flag[k] = n.flag[k]
<1>1. g \in Blocks /\ ModelOf(g) \in Models
  BY BlockKinds DEF Present
<1>2. PICK r : r = RemoveChildren(n, g)
  OBVIOUS
<1>3. /\ IsNet(r) /\ r.model = n.model /\ r.flag = n.flag
      /\ \A c \in Blocks : IF IsStrictPrefix(g, c) THEN r.param[c] = None ELSE r.param[c] = n.param[c]
      /\ \A c \in Blocks : IF IsPrefix(g, c) THEN r.kids[c] = <<>> ELSE r.kids[c] = n.kids[c]
      /\ Present(r) = {c \in Present(n) : ~IsStrictPrefix(g, c)}
  BY <1>1, <1>2, RemoveChildrenFacts DEF RemovedIn
<1>4. IsPrefix(g, g) /\ ~IsStrictPrefix(g, g)
  BY DEF IsPrefix, IsStrictPrefix
<1>5. PICK K, M, F, P : r = [kids |-> K, model |-> M, flag |-> F, param |-> P]
  BY <1>3, NetParts
<1>6. K = r.kids /\ M = r.model /\ F = r.flag /\ P = r.param
  BY <1>5
<1>7. PICK T : T = IF g = Universe THEN f.args ELSE P[g]
  OBVIOUS
<1>8. PICK F1 : F1 = [F EXCEPT ![ModelOf(g)] = f.declared]
  OBVIOUS
<1>9. PICK M1 : M1 = [M EXCEPT ![ModelOf(g)] = f.args]
  OBVIOUS
<1>10. PICK P1 : P1 = [P EXCEPT ![g] = T]
  OBVIOUS
<1>11. m = NetRecord(K, M1, F1, P1)
  <2>1. m = [r EXCEPT !.flag[ModelOf(g)] = f.declared, !.model[ModelOf(g)] = f.args,
                      !.param[g] = IF g = Universe THEN f.args ELSE @]
    BY <1>2 DEF Emptied
  <2>2. PICK a1 : a1 = [r EXCEPT !.flag[ModelOf(g)] = f.declared]
    OBVIOUS
  <2>3. a1 = [kids |-> K, model |-> M, flag |-> F1, param |-> P]
    BY <1>5, <1>8, <2>2
  <2>4. PICK a2 : a2 = [a1 EXCEPT !.model[ModelOf(g)] = f.args]
    OBVIOUS
  <2>5. a2 = [kids |-> K, model |-> M1, flag |-> F1, param |-> P]
    BY <1>9, <2>3, <2>4
  <2>6. PICK a3 : a3 = [a2 EXCEPT !.param[g] = T]
    OBVIOUS
  <2>7. a3 = [kids |-> K, model |-> M1, flag |-> F1, param |-> P1]
    BY <1>10, <2>5, <2>6
  <2>8. m = [[[r EXCEPT !.flag[ModelOf(g)] = f.declared] EXCEPT !.model[ModelOf(g)] = f.args]
                 EXCEPT !.param[g] = T]
    BY <1>6, <1>7, <2>1
  <2> QED
    BY <2>2, <2>4, <2>6, <2>7, <2>8 DEF NetRecord
<1>12. NetTypes(K, M, F, P) /\ TreeOK(K, P)
  BY <1>3, <1>6, NetParts, NetTree DEF NetTypes
<1>13. f.declared \in BOOLEAN /\ f.args \in [Index -> Default \cup {NULL}]
  BY DEF IsFile
<1>14. T \in Table /\ (g = Universe => \A i \in Index : ~IsBound(T[i]))
  <2>1. f.args \in Table /\ \A i \in Index : ~IsBound(f.args[i])
    BY <1>13, ParamFacts DEF Table, IsBound
  <2>2. P[g] \in Table
    BY <1>1, <1>12 DEF NetTypes
  <2> QED
    BY <1>7, <2>1, <2>2
<1>15. NetTypes(K, M1, F1, P1)
  BY <1>1, <1>8, <1>9, <1>10, <1>12, <1>13, <1>14 DEF NetTypes
<1>16. P1[g] = T /\ \A c \in Blocks : c # g => P1[c] = P[c]
  BY <1>1, <1>10, <1>12 DEF NetTypes
<1>17. g \in Present(r)
  BY <1>3, <1>4
<1>18. TreeOK(K, P1)
  <2>1. \A i \in Index : ~IsBound(P1[Universe][i])
    BY <1>12, <1>14, <1>16, Paths DEF TreeOK
  <2>2. ASSUME NEW c \in Blocks, c # Universe, c \notin Range(K[Front(c)])
        PROVE  K[c] = <<>> /\ P1[c] = None
    <3>1. c # g
      BY <1>6, <1>17, <2>2 DEF Present
    <3> QED
      BY <1>12, <1>16, <2>2, <3>1 DEF TreeOK
  <2> QED
    BY <1>12, <2>1, <2>2 DEF TreeOK
<1>19. NetFrom(m, K, M1, F1, P1)
  BY <1>11, <1>15, <1>18, NetOf
<1>20. m.kids = K /\ m.model = M1 /\ m.flag = F1 /\ m.param = P1 /\ IsNet(m)
  BY <1>19 DEF NetFrom
<1>21. g \in Present(m)
  BY <1>6, <1>17, <1>20 DEF Present
<1>22. \A k \in Models : k # ModelOf(g) => M1[k] = M[k] /\ F1[k] = F[k]
  BY <1>8, <1>9, <1>12 DEF NetTypes
<1>23. ASSUME NEW c \in Blocks, c # g
       PROVE  m.param[c] = r.param[c]
  BY <1>6, <1>16, <1>20, <1>23
<1>24. g # Universe => m.param[g] = n.param[g]
  BY <1>1, <1>3, <1>4, <1>6, <1>7, <1>16, <1>20
<1>25. m.kids[g] = <<>>
  BY <1>1, <1>3, <1>4, <1>6, <1>20
<1>26. \A c \in Blocks : ~IsPrefix(g, c) => m.param[c] = n.param[c] /\ m.kids[c] = n.kids[c]
  BY <1>3, <1>4, <1>6, <1>20, <1>23 DEF IsStrictPrefix
<1>27. \A c \in Blocks : IsStrictPrefix(g, c) => m.param[c] = None
  BY <1>3, <1>4, <1>23
<1> QED
  BY <1>3, <1>6, <1>20, <1>21, <1>22, <1>24, <1>25, <1>26, <1>27

-----------------------------------------------------------------------------
(* The files that are read. *)

StarLine(g, r, line) ==
    LET b == Append(g, line.name)
    IN IF ~r.ok THEN r
       ELSE IF \E i \in DOMAIN line.params : LineParamRefuses(r.net, g, line.params[i])
       THEN Result(FALSE, r.net)
       ELSE KrnVerifyParams(Created(r.net, b, line.params), b)

GalaxyLine(fs, g, r, line) ==
    LET b == Append(g, line.name)
    IN IF ~r.ok THEN r
       ELSE IF \E i \in DOMAIN line.params : LineParamRefuses(r.net, g, line.params[i])
       THEN Result(FALSE, r.net)
       ELSE LoadGalaxy(fs, Created(r.net, b, line.params), b)


StarsRead(h, f, n, g, N) ==
    h = [j \in 0..N |-> IF j = 0 THEN Result(TRUE, Emptied(f, n, g))
                        ELSE StarLine(g, h[j - 1], f.blocks[j])]

LEMMA StarsReadSome ==
    ASSUME NEW f, NEW n, NEW g, NEW N \in Nat
    PROVE  \E h : StarsRead(h, f, n, g, N)
<1> DEFINE T == {k \in 0..N : \E h : StarsRead(h, f, n, g, k)}
<1>1. 0 \in T
  <2>1. PICK h : h = [j \in 0..0 |-> Result(TRUE, Emptied(f, n, g))]
    OBVIOUS
  <2>2. h = [j \in 0..0 |-> IF j = 0 THEN Result(TRUE, Emptied(f, n, g))
                            ELSE StarLine(g, h[j - 1], f.blocks[j])]
    BY <2>1
  <2>3. StarsRead(h, f, n, g, 0)
    BY <2>2 DEF StarsRead
  <2> QED
    BY <2>3
<1>2. ASSUME NEW k \in 0..(N - 1), k \in T
      PROVE  k + 1 \in T
  <2>1. PICK h : StarsRead(h, f, n, g, k)
    BY <1>2
  <2>2. h = [j \in 0..k |-> IF j = 0 THEN Result(TRUE, Emptied(f, n, g))
                            ELSE StarLine(g, h[j - 1], f.blocks[j])]
    BY <2>1 DEF StarsRead
  <2>3. PICK e : e = [j \in 0..(k + 1) |-> IF j = k + 1 THEN StarLine(g, h[k], f.blocks[k + 1]) ELSE h[j]]
    OBVIOUS
  <2>4. ASSUME NEW j \in 0..(k + 1)
        PROVE  e[j] = IF j = 0 THEN Result(TRUE, Emptied(f, n, g))
                      ELSE StarLine(g, e[j - 1], f.blocks[j])
    <3>1. CASE j = k + 1
      <4>1. e[j] = StarLine(g, h[k], f.blocks[k + 1]) /\ e[j - 1] = h[k] /\ j # 0 /\ j - 1 = k
        BY <2>3, <3>1
      <4> QED
        BY <3>1, <4>1
    <3>2. CASE j = 0
      <4>0. 0 \in 0..k /\ 0 \in 0..(k + 1) /\ 0 # k + 1
        OBVIOUS
      <4>1. e[0] = h[0] /\ h[0] = Result(TRUE, Emptied(f, n, g))
        BY <2>2, <2>3, <4>0
      <4> QED
        BY <3>2, <4>1
    <3>3. CASE j # 0 /\ j # k + 1
      <4>1. j \in 0..k /\ j - 1 \in 0..(k + 1) /\ j - 1 # k + 1
        BY <3>3
      <4>2. e[j] = h[j] /\ e[j - 1] = h[j - 1] /\ h[j] = StarLine(g, h[j - 1], f.blocks[j])
        BY <2>2, <2>3, <3>3, <4>1
      <4> QED
        BY <3>3, <4>2
    <3> QED
      BY <3>1, <3>2, <3>3
  <2>5. e = [j \in 0..(k + 1) |-> e[j]]
    BY <2>3
  <2>6. e = [j \in 0..(k + 1) |-> IF j = 0 THEN Result(TRUE, Emptied(f, n, g))
                                  ELSE StarLine(g, e[j - 1], f.blocks[j])]
    BY <2>4, <2>5
  <2>7. StarsRead(e, f, n, g, k + 1)
    BY <2>6 DEF StarsRead
  <2> QED
    BY <2>7
<1> HIDE DEF T
<1>3. 0..N \subseteq T
  BY <1>1, <1>2, AllUpTo
<1>4. N \in T
  BY <1>3
<1> QED
  BY <1>4 DEF T

StarsLoaded(r, f, n, g, N) ==
    \E h : /\ StarsRead(h, f, n, g, N)
           /\ r = IF h[N].ok THEN KrnVerifyParams(h[N].net, g)
                  ELSE Result(FALSE, RemoveChildren(h[N].net, g))

LEMMA StarsReadRun ==
    ASSUME NEW fs, NEW n, NEW g, NEW f, f = fs[1], NEW N \in Nat, N = Len(f.blocks), NEW r, r = LoadGalaxy(fs, n, g)
    PROVE  StarsLoaded(r, f, n, g, N)
<1>1. PICK e : e = CHOOSE read : read = [j \in 0..N |-> IF j = 0 THEN Result(TRUE, Emptied(f, n, g))
                                                        ELSE StarLine(g, read[j - 1], f.blocks[j])]
  OBVIOUS
<1>1a. e = CHOOSE read : read = [j \in 0..Len(fs[1].blocks) |->
              IF j = 0 THEN Result(TRUE, Emptied(fs[1], n, g))
              ELSE StarLine(g, read[j - 1], fs[1].blocks[j])]
  BY <1>1
<1>2. StarsRead(e, f, n, g, N)
  <2>1. \E read : StarsRead(read, f, n, g, N)
    BY StarsReadSome
  <2>2. \E read : read = [j \in 0..N |-> IF j = 0 THEN Result(TRUE, Emptied(f, n, g))
                                         ELSE StarLine(g, read[j - 1], f.blocks[j])]
    BY <2>1 DEF StarsRead
  <2>3. e = [j \in 0..N |-> IF j = 0 THEN Result(TRUE, Emptied(f, n, g))
                            ELSE StarLine(g, e[j - 1], f.blocks[j])]
    BY <1>1, <2>2
  <2> QED
    BY <2>3 DEF StarsRead
<1>3. r = IF e[N].ok THEN KrnVerifyParams(e[N].net, g) ELSE Result(FALSE, RemoveChildren(e[N].net, g))
  <2>1. e[N] = ReadLines(fs[1], n, g, KrnVerifyParams)
    BY <1>1a DEF ReadLines, ReadLine, StarLine
  <2> QED
    BY <2>1 DEF LoadGalaxy, LoadFile
<1> QED
  BY <1>2, <1>3 DEF StarsLoaded


GalaxiesRead(h, fs, f, n, g, N) ==
    h = [j \in 0..N |-> IF j = 0 THEN Result(TRUE, Emptied(f, n, g))
                        ELSE GalaxyLine(fs, g, h[j - 1], f.blocks[j])]

LEMMA GalaxiesReadSome ==
    ASSUME NEW fs, NEW f, NEW n, NEW g, NEW N \in Nat
    PROVE  \E h : GalaxiesRead(h, fs, f, n, g, N)
<1> DEFINE T == {k \in 0..N : \E h : GalaxiesRead(h, fs, f, n, g, k)}
<1>1. 0 \in T
  <2>1. PICK h : h = [j \in 0..0 |-> Result(TRUE, Emptied(f, n, g))]
    OBVIOUS
  <2>2. h = [j \in 0..0 |-> IF j = 0 THEN Result(TRUE, Emptied(f, n, g))
                            ELSE GalaxyLine(fs, g, h[j - 1], f.blocks[j])]
    BY <2>1
  <2>3. GalaxiesRead(h, fs, f, n, g, 0)
    BY <2>2 DEF GalaxiesRead
  <2> QED
    BY <2>3
<1>2. ASSUME NEW k \in 0..(N - 1), k \in T
      PROVE  k + 1 \in T
  <2>1. PICK h : GalaxiesRead(h, fs, f, n, g, k)
    BY <1>2
  <2>2. h = [j \in 0..k |-> IF j = 0 THEN Result(TRUE, Emptied(f, n, g))
                            ELSE GalaxyLine(fs, g, h[j - 1], f.blocks[j])]
    BY <2>1 DEF GalaxiesRead
  <2>3. PICK e : e = [j \in 0..(k + 1) |-> IF j = k + 1 THEN GalaxyLine(fs, g, h[k], f.blocks[k + 1]) ELSE h[j]]
    OBVIOUS
  <2>4. ASSUME NEW j \in 0..(k + 1)
        PROVE  e[j] = IF j = 0 THEN Result(TRUE, Emptied(f, n, g))
                      ELSE GalaxyLine(fs, g, e[j - 1], f.blocks[j])
    <3>1. CASE j = k + 1
      <4>1. e[j] = GalaxyLine(fs, g, h[k], f.blocks[k + 1]) /\ e[j - 1] = h[k] /\ j # 0 /\ j - 1 = k
        BY <2>3, <3>1
      <4> QED
        BY <3>1, <4>1
    <3>2. CASE j = 0
      <4>0. 0 \in 0..k /\ 0 \in 0..(k + 1) /\ 0 # k + 1
        OBVIOUS
      <4>1. e[0] = h[0] /\ h[0] = Result(TRUE, Emptied(f, n, g))
        BY <2>2, <2>3, <4>0
      <4> QED
        BY <3>2, <4>1
    <3>3. CASE j # 0 /\ j # k + 1
      <4>1. j \in 0..k /\ j - 1 \in 0..(k + 1) /\ j - 1 # k + 1
        BY <3>3
      <4>2. e[j] = h[j] /\ e[j - 1] = h[j - 1] /\ h[j] = GalaxyLine(fs, g, h[j - 1], f.blocks[j])
        BY <2>2, <2>3, <3>3, <4>1
      <4> QED
        BY <3>3, <4>2
    <3> QED
      BY <3>1, <3>2, <3>3
  <2>5. e = [j \in 0..(k + 1) |-> e[j]]
    BY <2>3
  <2>6. e = [j \in 0..(k + 1) |-> IF j = 0 THEN Result(TRUE, Emptied(f, n, g))
                                  ELSE GalaxyLine(fs, g, e[j - 1], f.blocks[j])]
    BY <2>4, <2>5
  <2>7. GalaxiesRead(e, fs, f, n, g, k + 1)
    BY <2>6 DEF GalaxiesRead
  <2> QED
    BY <2>7
<1> HIDE DEF T
<1>3. 0..N \subseteq T
  BY <1>1, <1>2, AllUpTo
<1>4. N \in T
  BY <1>3
<1> QED
  BY <1>4 DEF T

GalaxiesLoaded(r, fs, f, n, g, N) ==
    \E h : /\ GalaxiesRead(h, fs, f, n, g, N)
           /\ r = IF h[N].ok THEN KrnVerifyParams(h[N].net, g)
                  ELSE Result(FALSE, RemoveChildren(h[N].net, g))

LEMMA GalaxiesReadRun ==
    ASSUME NEW fs, NEW n, NEW g, g = Universe, NEW f, f = fs[0], NEW N \in Nat, N = Len(f.blocks), NEW r, r = LineLoad(fs, n, g)
    PROVE  GalaxiesLoaded(r, fs, f, n, g, N)
<1>1. PICK e : e = CHOOSE read : read = [j \in 0..N |-> IF j = 0 THEN Result(TRUE, Emptied(f, n, g))
                                                        ELSE GalaxyLine(fs, g, read[j - 1], f.blocks[j])]
  OBVIOUS
<1>1a. e = CHOOSE read : read = [j \in 0..Len(fs[0].blocks) |->
              IF j = 0 THEN Result(TRUE, Emptied(fs[0], n, g))
              ELSE GalaxyLine(fs, g, read[j - 1], fs[0].blocks[j])]
  BY <1>1
<1>2. GalaxiesRead(e, fs, f, n, g, N)
  <2>1. \E read : GalaxiesRead(read, fs, f, n, g, N)
    BY GalaxiesReadSome
  <2>2. \E read : read = [j \in 0..N |-> IF j = 0 THEN Result(TRUE, Emptied(f, n, g))
                                         ELSE GalaxyLine(fs, g, read[j - 1], f.blocks[j])]
    BY <2>1 DEF GalaxiesRead
  <2>3. e = [j \in 0..N |-> IF j = 0 THEN Result(TRUE, Emptied(f, n, g))
                            ELSE GalaxyLine(fs, g, e[j - 1], f.blocks[j])]
    BY <1>1, <2>2
  <2> QED
    BY <2>3 DEF GalaxiesRead
<1>3. r = IF e[N].ok THEN KrnVerifyParams(e[N].net, g) ELSE Result(FALSE, RemoveChildren(e[N].net, g))
  <2>1. e[N] = ReadLines(fs[0], n, g, LAMBDA m, b : LoadGalaxy(fs, m, b))
    BY <1>1a DEF ReadLines, ReadLine, GalaxyLine
  <2> QED
    BY <2>1 DEF LineLoad, LoadFile
<1> QED
  BY <1>2, <1>3 DEF GalaxiesLoaded

(* While g is read: what is around it stays as it was. *)
ReadFrame(n0, n, g) ==
    /\ IsNet(n) /\ g \in Present(n)
    /\ \A c \in Blocks : ~IsPrefix(g, c) => n.param[c] = n0.param[c] /\ n.kids[c] = n0.kids[c]
    /\ g # Universe => n.param[g] = n0.param[g]
    /\ \A k \in Models : k < ModelOf(g) => n.model[k] = n0.model[k] /\ n.flag[k] = n0.flag[k]

(* The children are those of the first j lines. *)
FromLines(n, g, f, j) ==
    \A c \in Range(n.kids[g]) : \E i \in 1..j : c = Append(g, f.blocks[i].name)

StarsReading(n0, n, g, f, j) ==
    ReadFrame(n0, n, g) /\ TypedBelow(n, g) /\ FromLines(n, g, f, j)

LEMMA LineNames ==
    ASSUME NEW g \in {Universe} \cup Galaxy, NEW f, NEW names, IsFile(f, names),
           NEW i \in 1..Len(f.blocks), NEW j \in 1..Len(f.blocks),
           Append(g, f.blocks[i].name) = Append(g, f.blocks[j].name)
    PROVE  i = j
<1>1. PICK x, y : x = f.blocks[i].name /\ y = f.blocks[j].name
  OBVIOUS
<1>2. Append(g, x) = Append(g, y)
  BY <1>1
<1>3. x = y
  <2>1. CASE g = Universe
    <3>1. <<x>> = <<y>>
      BY <1>2, <2>1, Pairs DEF Universe
    <3> QED
      BY <3>1
  <2>2. CASE g \in Galaxy
    <3>1. PICK m \in Names : g = <<m>>
      BY <2>2 DEF Galaxy
    <3>2. <<m, x>> = <<m, y>>
      BY <1>2, <3>1, Pairs
    <3> QED
      BY <3>2
  <2> QED
    BY <2>1, <2>2
<1>4. DOMAIN f.blocks = 1..Len(f.blocks)
  BY DEF IsFile
<1> QED
  BY <1>1, <1>3, <1>4 DEF IsFile

LEMMA LineType ==
    ASSUME NEW f, NEW names, IsFile(f, names), NEW i \in 1..Len(f.blocks)
    PROVE  f.blocks[i].name \in names /\ f.blocks[i].params \in Seq(LineParams)
<1>1. f.blocks \in Seq([name : names, params : Seq(LineParams)])
  BY DEF IsFile
<1>2. PICK S, bs : S = [name : names, params : Seq(LineParams)] /\ bs = f.blocks
  OBVIOUS
<1>3. bs \in Seq(S) /\ i \in 1..Len(bs)
  BY <1>1, <1>2
<1>4. bs[i] \in S
  BY <1>3
<1>5. f.blocks[i] \in [name : names, params : Seq(LineParams)]
  BY <1>2, <1>4
<1> QED
  BY <1>5

(* The block of a line is not there yet. *)
LEMMA LineNew ==
    ASSUME NEW n, IsNet(n), NEW g \in {Universe} \cup Galaxy, NEW f, NEW names, IsFile(f, names),
           NEW j \in 0..(Len(f.blocks) - 1), FromLines(n, g, f, j),
           NEW b \in Blocks, b = Append(g, f.blocks[j + 1].name), Front(b) = g, b # Universe
    PROVE  b \notin Present(n)
<1> SUFFICES ASSUME b \in Present(n) PROVE FALSE
  OBVIOUS
<1>0. Len(f.blocks) \in Nat
  BY DEF IsFile
<1>1. b \in Range(n.kids[g])
  BY DEF Present
<1>2. PICK i \in 1..j : b = Append(g, f.blocks[i].name)
  BY <1>1 DEF FromLines
<1>3. i \in 1..Len(f.blocks) /\ j + 1 \in 1..Len(f.blocks) /\ i # j + 1
  BY <1>0
<1>4. PICK k \in 1..Len(f.blocks) : k = j + 1
  BY <1>3
<1>5. Append(g, f.blocks[i].name) = Append(g, f.blocks[k].name)
  BY <1>2, <1>4
<1>6. i = k
  BY <1>3, <1>5, LineNames
<1> QED
  BY <1>3, <1>4, <1>6

LEMMA FromNextLine ==
    ASSUME NEW n, NEW m, NEW g, NEW f, NEW j \in Nat, FromLines(n, g, f, j),
           NEW b, b = Append(g, f.blocks[j + 1].name),
           Range(m.kids[g]) = Range(n.kids[g]) \cup {b}
    PROVE  FromLines(m, g, f, j + 1)
<1>1. ASSUME NEW c \in Range(m.kids[g])
      PROVE  \E i \in 1..(j + 1) : c = Append(g, f.blocks[i].name)
  <2>1. CASE c = b
    <3>1. j + 1 \in 1..(j + 1)
      OBVIOUS
    <3> QED
      BY <2>1, <3>1
  <2>2. CASE c \in Range(n.kids[g])
    <3>1. PICK i \in 1..j : c = Append(g, f.blocks[i].name)
      BY <2>2 DEF FromLines
    <3>2. i \in 1..(j + 1)
      OBVIOUS
    <3> QED
      BY <3>1, <3>2
  <2> QED
    BY <2>1, <2>2
<1> QED
  BY <1>1 DEF FromLines

LEMMA StarStep ==
    ASSUME NEW n0, NEW n, NEW g \in Galaxy, NEW f, IsFile(f, {starName}),
           NEW j \in 0..(Len(f.blocks) - 1), StarsReading(n0, n, g, f, j),
           NEW line, line = f.blocks[j + 1], NEW s, s = StarLine(g, Result(TRUE, n), line)
    PROVE  IF s.ok THEN StarsReading(n0, s.net, g, f, j + 1) ELSE ReadFrame(n0, s.net, g)
<1>1. ReadFrame(n0, n, g) /\ TypedBelow(n, g) /\ FromLines(n, g, f, j)
  BY DEF StarsReading
<1>2. IsNet(n) /\ g \in Present(n)
  BY <1>1 DEF ReadFrame
<1>3. j + 1 \in 1..Len(f.blocks) /\ j \in Nat
  BY DEF IsFile
<1>4. line.name = starName /\ line.params \in Seq(LineParams)
  BY <1>3, LineType
<1>5. PICK b : b = StarIn(g)
  OBVIOUS
<1>6. b = Append(g, line.name) /\ b = Append(g, f.blocks[j + 1].name)
  BY <1>4, <1>5 DEF StarIn
<1>7. b \in Blocks /\ b # Universe /\ Front(b) = g /\ ModelOf(b) = 2 /\ ModelOf(g) = 1 /\ b # g /\ b \in Star
      /\ g \in Blocks /\ g # Universe /\ Front(g) = Universe
  BY <1>5, Paths DEF Star
<1>8. b \notin Present(n)
  BY <1>1, <1>2, <1>6, <1>7, LineNew
<1>9. Result(TRUE, n).ok = TRUE /\ Result(TRUE, n).net = n
  BY DEF Result
<1>10. CASE \E i \in DOMAIN line.params : LineParamRefuses(n, g, line.params[i])
  <2>1. s = Result(FALSE, n)
    BY <1>9, <1>10 DEF StarLine
  <2>2. s.ok = FALSE /\ s.net = n
    BY <2>1 DEF Result
  <2> QED
    BY <1>1, <2>2
<1>11. CASE ~\E i \in DOMAIN line.params : LineParamRefuses(n, g, line.params[i])
  <2>1. PICK m : m = Created(n, b, line.params)
    OBVIOUS
  <2>2. s = KrnVerifyParams(m, b)
    BY <1>6, <1>9, <1>11, <2>1 DEF StarLine
  <2>3. /\ IsNet(m) /\ b \in Present(m) /\ m.model = n.model /\ m.flag = n.flag
        /\ \A c \in Blocks : c # b => m.param[c] = n.param[c]
        /\ \A c \in Blocks : c # g => m.kids[c] = n.kids[c]
        /\ Range(m.kids[g]) = Range(n.kids[g]) \cup {b}
    <3>1. PICK params \in Seq(LineParams) : params = line.params
      BY <1>4
    <3>2. m = Created(n, b, params)
      BY <2>1, <3>1
    <3>3. CreatedIn(n, m, b)
      BY <1>2, <1>7, <1>8, <3>2, CreatedFacts
    <3> QED
      BY <1>7, <3>3 DEF CreatedIn
  <2>4. \A c \in Blocks : ~IsStrictPrefix(b, c) /\ (IsPrefix(b, c) <=> c = b)
    <3>1. \A c \in Blocks : b # Front(c)
      BY <1>7, BlockKinds
    <3> QED
      BY <1>7, <3>1, StrictPrefixOf, PrefixOf
  <2>5. TypedBelow(m, b)
    BY <2>3, <2>4, BindingFacts DEF TypedBelow
  <2>6. /\ Frame(m, s.net, b)
        /\ s.ok => TypedIn(s.net, b)
    BY <2>2, <2>3, <2>5, VerifyFacts
  <2>7. PICK e : e = s.net
    OBVIOUS
  <2>8. /\ IsNet(e) /\ e.kids = m.kids
        /\ \A c \in Blocks : c # b => e.param[c] = n.param[c]
        /\ \A k \in Models : k < 1 => e.model[k] = n.model[k] /\ e.flag[k] = n.flag[k]
    <3>1. /\ IsNet(e) /\ e.kids = m.kids
          /\ \A c \in Blocks : ~IsPrefix(b, c) => e.param[c] = m.param[c]
          /\ \A k \in Models : k # 2 => e.flag[k] = m.flag[k]
          /\ \A k \in Models : k \notin {2, 2 - 1} => e.model[k] = m.model[k]
      BY <1>7, <2>6, <2>7 DEF Frame
    <3>2. \A k \in Models : k < 1 => k # 2 /\ k \notin {2, 2 - 1}
      BY DEF Models
    <3> QED
      BY <2>3, <2>4, <3>1, <3>2
  <2>9. g \in Present(e)
    <3>1. g \in Range(n.kids[Universe])
      BY <1>2, <1>7 DEF Present
    <3>2. e.kids[Universe] = n.kids[Universe]
      BY <1>7, <2>3, <2>8, Paths
    <3> QED
      BY <1>7, <3>1, <3>2 DEF Present
  <2>10. IsPrefix(g, b) /\ IsPrefix(g, g)
    BY <1>7, PrefixOf
  <2>11. ReadFrame(n0, e, g)
    <3>1. ASSUME NEW c \in Blocks, ~IsPrefix(g, c)
          PROVE  e.param[c] = n0.param[c] /\ e.kids[c] = n0.kids[c]
      <4>1. c # b /\ c # g
        BY <2>10, <3>1
      <4>2. n.param[c] = n0.param[c] /\ n.kids[c] = n0.kids[c]
        BY <1>1, <3>1 DEF ReadFrame
      <4> QED
        BY <2>3, <2>8, <4>1, <4>2
    <3>2. e.param[g] = n0.param[g]
      BY <1>1, <1>7, <2>8 DEF ReadFrame
    <3>3. \A k \in Models : k < ModelOf(g) => e.model[k] = n0.model[k] /\ e.flag[k] = n0.flag[k]
      BY <1>1, <1>7, <2>8 DEF ReadFrame
    <3> QED
      BY <2>8, <2>9, <3>1, <3>2, <3>3 DEF ReadFrame
  <2>12. ASSUME s.ok
         PROVE  TypedBelow(e, g)
    <3>1. ASSUME NEW x \in Bindings(e), IsStrictPrefix(g, x[1])
          PROVE  e.param[x[1]][x[2]].type # "arg"
      <4>1. CASE x[1] = b
        <5>1. IsPrefix(b, x[1])
          BY <4>1 DEF IsPrefix
        <5> QED
          BY <2>6, <2>7, <2>12, <3>1, <5>1 DEF TypedIn
      <4>2. CASE x[1] # b
        <5>1. x[1] \in Blocks /\ x \in Bindings(n) /\ e.param[x[1]] = n.param[x[1]]
          BY <2>8, <4>2 DEF Bindings
        <5> QED
          BY <1>1, <3>1, <5>1 DEF TypedBelow
      <4> QED
        BY <4>1, <4>2
    <3> QED
      BY <3>1 DEF TypedBelow
  <2>13. FromLines(e, g, f, j + 1)
    <3>1. Range(e.kids[g]) = Range(n.kids[g]) \cup {b}
      BY <2>3, <2>8
    <3> QED
      BY <1>1, <1>3, <1>6, <3>1, FromNextLine
  <2> QED
    BY <2>7, <2>11, <2>12, <2>13 DEF StarsReading
<1> QED
  BY <1>10, <1>11

EmptiedIn(n, m, g) ==
    /\ ReadFrame(n, m, g) /\ TypedBelow(m, g) /\ m.kids[g] = <<>>
    /\ \A c \in Blocks : IsStrictPrefix(g, c) => m.param[c] = None

LEMMA EmptiedFrame ==
    ASSUME NEW n, IsNet(n), NEW g \in Present(n), NEW f, NEW names, IsFile(f, names),
           NEW m, m = Emptied(f, n, g)
    PROVE  EmptiedIn(n, m, g)
<1>1. /\ IsNet(m) /\ g \in Present(m)
      /\ \A c \in Blocks : ~IsPrefix(g, c) => m.param[c] = n.param[c] /\ m.kids[c] = n.kids[c]
      /\ \A c \in Blocks : IsStrictPrefix(g, c) => m.param[c] = None
      /\ g # Universe => m.param[g] = n.param[g]
      /\ m.kids[g] = <<>>
      /\ \A k \in Models : k # ModelOf(g) => m.model[k] = n.model[k] /\ m.flag[k] = n.flag[k]
  BY EmptiedFacts
<1>2. ModelOf(g) \in Int
  BY BlockKinds DEF Present, Models
<1>3. \A k \in Models : k < ModelOf(g) => k # ModelOf(g)
  BY <1>2 DEF Models
<1>4. ReadFrame(n, m, g)
  BY <1>1, <1>3 DEF ReadFrame
<1>5. TypedBelow(m, g)
  <2>1. ASSUME NEW x \in Bindings(m), IsStrictPrefix(g, x[1])
        PROVE  FALSE
    <3>1. x[1] \in Blocks /\ x[2] \in Index /\ IsBound(m.param[x[1]][x[2]])
      BY DEF Bindings
    <3>2. m.param[x[1]] = None
      BY <1>1, <2>1, <3>1
    <3> QED
      BY <3>1, <3>2 DEF None, IsBound
  <2> QED
    BY <2>1 DEF TypedBelow
<1> QED
  BY <1>1, <1>4, <1>5 DEF EmptiedIn

LEMMA StarLoop ==
    ASSUME NEW n, IsNet(n), NEW g \in Galaxy, g \in Present(n), NEW f, IsFile(f, {starName}),
           NEW N, N = Len(f.blocks), NEW h, StarsRead(h, f, n, g, N)
    PROVE  \A j \in 0..N : IF h[j].ok THEN StarsReading(n, h[j].net, g, f, j)
                           ELSE ReadFrame(n, h[j].net, g)
<1> DEFINE T == {j \in 0..N : IF h[j].ok THEN StarsReading(n, h[j].net, g, f, j)
                              ELSE ReadFrame(n, h[j].net, g)}
<1>1. N \in Nat
  BY DEF IsFile
<1>2. \A j \in 0..N : h[j] = IF j = 0 THEN Result(TRUE, Emptied(f, n, g))
                             ELSE StarLine(g, h[j - 1], f.blocks[j])
  BY DEF StarsRead
<1>3. 0 \in T
  <2>1. 0 \in 0..N
    BY <1>1
  <2>2. h[0] = Result(TRUE, Emptied(f, n, g))
    BY <1>2, <2>1
  <2>3. PICK m : m = Emptied(f, n, g)
    OBVIOUS
  <2>4. h[0].ok = TRUE /\ h[0].net = m
    BY <2>2, <2>3 DEF Result
  <2>5. EmptiedIn(n, m, g)
    BY <2>3, EmptiedFrame
  <2>6. FromLines(m, g, f, 0)
    BY <2>5 DEF EmptiedIn, FromLines, Range
  <2>7. StarsReading(n, m, g, f, 0)
    BY <2>5, <2>6 DEF EmptiedIn, StarsReading
  <2> QED
    BY <2>1, <2>4, <2>7
<1>4. ASSUME NEW j \in 0..(N - 1), j \in T
      PROVE  j + 1 \in T
  <2>1. j \in 0..N /\ j + 1 \in 0..N /\ j + 1 # 0 /\ (j + 1) - 1 = j
    BY <1>1
  <2>2. h[j + 1] = StarLine(g, h[j], f.blocks[j + 1])
    BY <1>2, <2>1
  <2>3. PICK r, s, line : r = h[j] /\ s = h[j + 1] /\ line = f.blocks[j + 1]
    OBVIOUS
  <2>4. IF r.ok THEN StarsReading(n, r.net, g, f, j) ELSE ReadFrame(n, r.net, g)
    BY <1>4, <2>3
  <2>5. CASE ~r.ok
    <3>1. s = r
      BY <2>2, <2>3, <2>5 DEF StarLine
    <3> QED
      BY <2>1, <2>3, <2>4, <2>5, <3>1
  <2>6. CASE r.ok
    <3>1. PICK m : m = r.net
      OBVIOUS
    <3>2. StarsReading(n, m, g, f, j)
      BY <2>4, <2>6, <3>1
    <3>3. s = StarLine(g, Result(TRUE, m), line)
      BY <2>2, <2>3, <2>6, <3>1 DEF StarLine, Result
    <3>4. IF s.ok THEN StarsReading(n, s.net, g, f, j + 1) ELSE ReadFrame(n, s.net, g)
      BY <2>3, <3>2, <3>3, StarStep
    <3> QED
      BY <2>1, <2>3, <3>4
  <2> QED
    BY <2>5, <2>6
<1> HIDE DEF T
<1>5. 0..N \subseteq T
  BY <1>1, <1>3, <1>4, AllUpTo
<1> QED
  BY <1>5 DEF T

(* What loading a galaxy does to the net. *)
GalaxyLoaded(n, r, g) ==
    /\ IsNet(r.net) /\ g \in Present(r.net)
    /\ \A c \in Blocks : ~IsPrefix(g, c) => r.net.param[c] = n.param[c] /\ r.net.kids[c] = n.kids[c]
    /\ r.ok => /\ TypedIn(r.net, g)
               /\ \A x \in Apart(r.net) : IsPrefix(g, x[1]) =>
                     x[1] = g /\ (StaysApart(n, r.net, x) \/ StartsFrom(n, r.net, x))

LEMMA GalaxyFacts ==
    ASSUME NEW fs, IsFile(fs[1], {starName}), NEW n, IsNet(n), NEW g \in Galaxy, g \in Present(n),
           NEW r, r = LoadGalaxy(fs, n, g)
    PROVE  GalaxyLoaded(n, r, g)
<1>1. PICK f, N : f = fs[1] /\ N = Len(f.blocks)
  OBVIOUS
<1>2. IsFile(f, {starName}) /\ N \in Nat
  BY <1>1 DEF IsFile
<1>3. PICK h : /\ StarsRead(h, f, n, g, N)
               /\ r = IF h[N].ok THEN KrnVerifyParams(h[N].net, g)
                      ELSE Result(FALSE, RemoveChildren(h[N].net, g))
  <2>1. StarsLoaded(r, f, n, g, N)
    BY <1>1, <1>2, StarsReadRun
  <2> QED
    BY <2>1 DEF StarsLoaded
<1>4. \A j \in 0..N : IF h[j].ok THEN StarsReading(n, h[j].net, g, f, j)
                      ELSE ReadFrame(n, h[j].net, g)
  BY <1>1, <1>2, <1>3, StarLoop
<1>5. PICK e : e = h[N].net
  OBVIOUS
<1>6. IF h[N].ok THEN StarsReading(n, e, g, f, N) ELSE ReadFrame(n, e, g)
  <2>1. N \in 0..N
    BY <1>2
  <2> QED
    BY <1>4, <1>5, <2>1
<1>7. ReadFrame(n, e, g)
  BY <1>6 DEF StarsReading
<1>8. /\ IsNet(e) /\ g \in Present(e)
      /\ \A c \in Blocks : ~IsPrefix(g, c) => e.param[c] = n.param[c] /\ e.kids[c] = n.kids[c]
      /\ e.param[g] = n.param[g]
      /\ \A k \in Models : k < ModelOf(g) => e.model[k] = n.model[k] /\ e.flag[k] = n.flag[k]
  BY <1>7, Paths DEF ReadFrame
<1>9. g \in Blocks /\ g # Universe /\ Front(g) = Universe /\ ModelOf(g) = 1 /\ Universe \in Blocks
      /\ ModelOf(Universe) = 0 /\ IsPrefix(g, g)
  BY Paths DEF IsPrefix
<1>10. CASE ~h[N].ok
  <2>1. r = Result(FALSE, RemoveChildren(e, g))
    BY <1>3, <1>5, <1>10
  <2>2. PICK m : m = RemoveChildren(e, g)
    OBVIOUS
  <2>3. /\ IsNet(m)
        /\ \A c \in Blocks : IF IsStrictPrefix(g, c) THEN m.param[c] = None ELSE m.param[c] = e.param[c]
        /\ \A c \in Blocks : IF IsPrefix(g, c) THEN m.kids[c] = <<>> ELSE m.kids[c] = e.kids[c]
        /\ Present(m) = {c \in Present(e) : ~IsStrictPrefix(g, c)}
    <3>1. RemovedIn(e, m, g)
      BY <1>8, <1>9, <2>2, RemoveChildrenFacts
    <3> QED
      BY <3>1 DEF RemovedIn
  <2>4. r.ok = FALSE /\ r.net = m
    BY <2>1, <2>2 DEF Result
  <2>5. g \in Present(m)
    BY <1>8, <2>3 DEF IsStrictPrefix
  <2>6. \A c \in Blocks : ~IsPrefix(g, c) => m.param[c] = n.param[c] /\ m.kids[c] = n.kids[c]
    BY <1>8, <2>3 DEF IsStrictPrefix
  <2> QED
    BY <2>3, <2>4, <2>5, <2>6 DEF GalaxyLoaded
<1>11. CASE h[N].ok
  <2>1. r = KrnVerifyParams(e, g) /\ TypedBelow(e, g)
    BY <1>3, <1>5, <1>6, <1>11 DEF StarsReading
  <2>2. Frame(e, r.net, g) /\ (r.ok => TypedIn(r.net, g) /\ Settled(e, r.net, g))
    BY <1>8, <2>1, VerifyFacts
  <2>3. PICK m : m = r.net
    OBVIOUS
  <2>4. IsNet(m) /\ m.kids = e.kids /\ \A c \in Blocks : ~IsPrefix(g, c) => m.param[c] = e.param[c]
    BY <2>2, <2>3 DEF Frame
  <2>5. g \in Present(m)
    BY <1>8, <2>4 DEF Present
  <2>6. \A c \in Blocks : ~IsPrefix(g, c) => m.param[c] = n.param[c] /\ m.kids[c] = n.kids[c]
    BY <1>8, <2>4
  <2>7. ASSUME r.ok, NEW x \in Apart(m), IsPrefix(g, x[1])
        PROVE  x[1] = g /\ (StaysApart(n, m, x) \/ StartsFrom(n, m, x))
    <3>1. \/ x[1] = g /\ (StaysApart(e, m, x) \/ StartsFrom(e, m, x))
          \/ x[1] # g /\ Front(x[1]) # g /\ x \in Apart(e)
      BY <2>2, <2>3, <2>7 DEF Settled
    <3>2. x[1] \in Blocks /\ x[1] # Universe
      BY DEF Apart, Bindings
    <3>3. x[1] = g
      BY <1>9, <2>7, <3>1, <3>2, PrefixOf
    <3>4. CASE StaysApart(e, m, x)
      <4>0. x \in Apart(e) /\ m.param[x[1]][x[2]] = e.param[x[1]][x[2]]
        BY <3>4 DEF StaysApart
      <4>1. x \in Bindings(e) /\ Given(e, x) = e.param[Universe][e.param[g][x[2]].arg]
        BY <1>9, <3>3, <4>0, Zenon DEF Apart, Given
      <4>2. e.param[Universe] = n.param[Universe]
        <5>1. ~IsPrefix(g, Universe)
          BY <1>9, PrefixOf
        <5> QED
          BY <1>8, <1>9, <5>1
      <4>3. x \in Bindings(n)
        BY <1>8, <3>3, <4>1 DEF Bindings
      <4>4. Given(n, x) = Given(e, x)
        BY <1>8, <1>9, <3>3, <4>1, <4>2 DEF Given
      <4>5. x \in Apart(n)
        BY <1>8, <3>3, <4>0, <4>3, <4>4 DEF Apart
      <4> QED
        BY <1>8, <3>3, <4>0, <4>5 DEF StaysApart
    <3>5. CASE StartsFrom(e, m, x)
      <4>1. 0 \in Models /\ 0 < ModelOf(g)
        BY <1>9 DEF Models
      <4>2. e.model[0] = n.model[0] /\ e.flag[0] = n.flag[0]
        BY <1>8, <4>1
      <4>3. ModelOf(Front(x[1])) = 0
        BY <1>9, <3>3
      <4>4. StartsFrom(n, m, x)
        BY <3>5, <4>2, <4>3, Zenon DEF StartsFrom
      <4> QED
        BY <3>3, <4>4
    <3> QED
      BY <3>1, <3>3, <3>4, <3>5
  <2> QED
    BY <2>2, <2>3, <2>4, <2>5, <2>6, <2>7 DEF GalaxyLoaded
<1> QED
  BY <1>10, <1>11

(* Whether a parameter has the value of its argument depends on its block  *)
(* and on the galaxy around it.                                            *)
LEMMA ApartSame ==
    ASSUME NEW n, NEW m, NEW x \in Apart(m), m.param[x[1]] = n.param[x[1]],
           m.param[Front(x[1])] = n.param[Front(x[1])]
    PROVE  x \in Apart(n)
<1>1. x \in Bindings(m)
  BY DEF Apart
<1>2. x \in Bindings(n)
  BY <1>1 DEF Bindings
<1>3. Given(m, x) = Given(n, x)
  BY DEF Given
<1> QED
  BY <1>2, <1>3 DEF Apart

(* While the universe is read: its galaxies may have other values than it  *)
(* has, but the stars have those of their galaxies.                        *)
GalaxiesReading(n, f, j) ==
    /\ IsNet(n) /\ TypedBelow(n, Universe) /\ FromLines(n, Universe, f, j)
    /\ \A x \in Apart(n) : Front(x[1]) = Universe

LEMMA GalaxyStep ==
    ASSUME NEW fs, IsFile(fs[1], {starName}), NEW f, IsFile(f, Names), NEW n,
           NEW j \in 0..(Len(f.blocks) - 1), GalaxiesReading(n, f, j),
           NEW line, line = f.blocks[j + 1],
           NEW s, s = GalaxyLine(fs, Universe, Result(TRUE, n), line)
    PROVE  IF s.ok THEN GalaxiesReading(s.net, f, j + 1) ELSE IsNet(s.net)
<1>1. IsNet(n) /\ TypedBelow(n, Universe) /\ FromLines(n, Universe, f, j)
      /\ \A x \in Apart(n) : Front(x[1]) = Universe
  BY DEF GalaxiesReading
<1>2. j + 1 \in 1..Len(f.blocks) /\ j \in Nat
  BY DEF IsFile
<1>3. line.name \in Names /\ line.params \in Seq(LineParams)
  BY <1>2, LineType
<1>4. PICK b : b = Append(Universe, line.name)
  OBVIOUS
<1>5. b \in Galaxy
  <2>1. Append(<<>>, line.name) = <<line.name>>
    BY Pairs
  <2> QED
    BY <1>3, <1>4, <2>1 DEF Galaxy, Universe
<1>6. b \in Blocks /\ b # Universe /\ Front(b) = Universe /\ Universe \in Blocks
  BY <1>5, Paths
<1>7. b = Append(Universe, f.blocks[j + 1].name)
  BY <1>4
<1>8. b \notin Present(n)
  BY <1>1, <1>6, <1>7, LineNew
<1>9. Result(TRUE, n).ok = TRUE /\ Result(TRUE, n).net = n
  BY DEF Result
<1>10. CASE \E i \in DOMAIN line.params : LineParamRefuses(n, Universe, line.params[i])
  <2>1. s = Result(FALSE, n)
    BY <1>9, <1>10 DEF GalaxyLine
  <2>2. s.ok = FALSE /\ s.net = n
    BY <2>1 DEF Result
  <2> QED
    BY <1>1, <2>2
<1>11. CASE ~\E i \in DOMAIN line.params : LineParamRefuses(n, Universe, line.params[i])
  <2>1. PICK m : m = Created(n, b, line.params)
    OBVIOUS
  <2>2. s = LoadGalaxy(fs, m, b)
    BY <1>4, <1>9, <1>11, <2>1 DEF GalaxyLine
  <2>3. CreatedIn(n, m, b)
    <3>1. PICK params \in Seq(LineParams) : params = line.params
      BY <1>3
    <3>2. m = Created(n, b, params)
      BY <2>1, <3>1
    <3>3. Front(b) \in Present(n)
      BY <1>6 DEF Present
    <3> QED
      BY <1>1, <1>6, <1>8, <3>2, <3>3, CreatedFacts
  <2>4. /\ IsNet(m) /\ b \in Present(m)
        /\ \A c \in Blocks : c # b => m.param[c] = n.param[c]
        /\ Range(m.kids[Universe]) = Range(n.kids[Universe]) \cup {b}
    BY <1>6, <2>3 DEF CreatedIn
  <2>5. PICK e : e = s.net
    OBVIOUS
  <2>6. GalaxyLoaded(m, s, b)
    BY <1>5, <2>2, <2>4, GalaxyFacts
  <2>7. /\ IsNet(e)
        /\ \A c \in Blocks : ~IsPrefix(b, c) => e.param[c] = m.param[c] /\ e.kids[c] = m.kids[c]
        /\ s.ok => /\ TypedIn(e, b)
                   /\ \A x \in Apart(e) : IsPrefix(b, x[1]) => x[1] = b
    BY <2>5, <2>6 DEF GalaxyLoaded
  <2>8. IsPrefix(b, b) /\ ~IsPrefix(b, Universe)
    BY <1>6, PrefixOf
  <2>9. \A c \in Blocks : ~IsPrefix(b, c) => e.param[c] = n.param[c]
    BY <2>4, <2>7, <2>8
  <2>10. FromLines(e, Universe, f, j + 1)
    <3>1. Range(e.kids[Universe]) = Range(n.kids[Universe]) \cup {b}
      BY <1>6, <2>4, <2>7, <2>8
    <3> QED
      BY <1>1, <1>2, <1>7, <3>1, FromNextLine
  <2>11. ASSUME s.ok
         PROVE  TypedBelow(e, Universe)
    <3>1. ASSUME NEW x \in Bindings(e), IsStrictPrefix(Universe, x[1])
          PROVE  e.param[x[1]][x[2]].type # "arg"
      <4>1. CASE IsPrefix(b, x[1])
        BY <2>7, <2>11, <4>1 DEF TypedIn
      <4>2. CASE ~IsPrefix(b, x[1])
        <5>1. x[1] \in Blocks /\ e.param[x[1]] = n.param[x[1]] /\ x \in Bindings(n)
          BY <2>9, <4>2 DEF Bindings
        <5> QED
          BY <1>1, <3>1, <5>1 DEF TypedBelow
      <4> QED
        BY <4>1, <4>2
    <3> QED
      BY <3>1 DEF TypedBelow
  <2>12. ASSUME s.ok, NEW x \in Apart(e)
         PROVE  Front(x[1]) = Universe
    <3>1. x[1] \in Blocks /\ x[1] # Universe /\ Front(x[1]) \in Blocks
      <4>1. x \in Bindings(e)
        BY DEF Apart
      <4> QED
        BY <2>7, <4>1, BindingFacts
    <3>2. CASE IsPrefix(b, x[1])
      BY <1>6, <2>7, <2>12, <3>2
    <3>3. CASE ~IsPrefix(b, x[1])
      <4>1. b # Front(x[1]) /\ b # x[1]
        BY <1>6, <3>1, <3>3, PrefixOf
      <4>2. CASE Front(x[1]) = Universe
        BY <4>2
      <4>3. CASE Front(x[1]) # Universe
        <5>1. Front(Front(x[1])) = Universe
          BY <3>1, <4>3, BlockKinds, Paths
        <5>2. ~IsPrefix(b, Front(x[1]))
          BY <1>6, <3>1, <4>1, <5>1, PrefixOf
        <5>3. e.param[x[1]] = n.param[x[1]] /\ e.param[Front(x[1])] = n.param[Front(x[1])]
          BY <2>9, <3>1, <3>3, <5>2
        <5>4. x \in Apart(n)
          BY <5>3, ApartSame
        <5> QED
          BY <1>1, <5>4
      <4> QED
        BY <4>2, <4>3
    <3> QED
      BY <3>2, <3>3
  <2>13. CASE s.ok
    BY <2>5, <2>7, <2>10, <2>11, <2>12, <2>13 DEF GalaxiesReading
  <2>14. CASE ~s.ok
    BY <2>5, <2>7, <2>14
  <2> QED
    BY <2>13, <2>14
<1> QED
  BY <1>10, <1>11

LEMMA GalaxyLoop ==
    ASSUME NEW fs, IsFile(fs[1], {starName}), NEW f, IsFile(f, Names), NEW n, IsNet(n),
           NEW N, N = Len(f.blocks), NEW h, GalaxiesRead(h, fs, f, n, Universe, N)
    PROVE  \A j \in 0..N : IF h[j].ok THEN GalaxiesReading(h[j].net, f, j) ELSE IsNet(h[j].net)
<1> DEFINE T == {j \in 0..N : IF h[j].ok THEN GalaxiesReading(h[j].net, f, j) ELSE IsNet(h[j].net)}
<1>1. N \in Nat
  BY DEF IsFile
<1>2. \A j \in 0..N : h[j] = IF j = 0 THEN Result(TRUE, Emptied(f, n, Universe))
                             ELSE GalaxyLine(fs, Universe, h[j - 1], f.blocks[j])
  BY DEF GalaxiesRead
<1>3. 0 \in T
  <2>1. 0 \in 0..N
    BY <1>1
  <2>2. h[0] = Result(TRUE, Emptied(f, n, Universe))
    BY <1>2, <2>1
  <2>3. PICK m : m = Emptied(f, n, Universe)
    OBVIOUS
  <2>4. h[0].ok = TRUE /\ h[0].net = m
    BY <2>2, <2>3 DEF Result
  <2>5. EmptiedIn(n, m, Universe)
    <3>1. Universe \in Present(n)
      BY Paths DEF Present
    <3> QED
      BY <2>3, <3>1, EmptiedFrame
  <2>6. FromLines(m, Universe, f, 0)
    BY <2>5 DEF EmptiedIn, FromLines, Range
  <2>7. IsNet(m) /\ TypedBelow(m, Universe)
    BY <2>5 DEF EmptiedIn, ReadFrame
  <2>8. ASSUME NEW x \in Apart(m)
        PROVE  FALSE
    <3>1. x[1] \in Blocks /\ x[1] # Universe /\ x[2] \in Index /\ IsBound(m.param[x[1]][x[2]])
      BY DEF Apart, Bindings
    <3>2. IsStrictPrefix(Universe, x[1])
      BY <3>1, Paths, StrictPrefixOf
    <3>3. m.param[x[1]] = None
      BY <2>5, <3>1, <3>2 DEF EmptiedIn
    <3> QED
      BY <3>1, <3>3 DEF None, IsBound
  <2>9. GalaxiesReading(m, f, 0)
    BY <2>6, <2>7, <2>8 DEF GalaxiesReading
  <2> QED
    BY <2>1, <2>4, <2>9
<1>4. ASSUME NEW j \in 0..(N - 1), j \in T
      PROVE  j + 1 \in T
  <2>1. j \in 0..N /\ j + 1 \in 0..N /\ j + 1 # 0 /\ (j + 1) - 1 = j
    BY <1>1
  <2>2. h[j + 1] = GalaxyLine(fs, Universe, h[j], f.blocks[j + 1])
    BY <1>2, <2>1
  <2>3. PICK r, s, line : r = h[j] /\ s = h[j + 1] /\ line = f.blocks[j + 1]
    OBVIOUS
  <2>4. IF r.ok THEN GalaxiesReading(r.net, f, j) ELSE IsNet(r.net)
    BY <1>4, <2>3
  <2>5. CASE ~r.ok
    <3>1. s = r
      BY <2>2, <2>3, <2>5 DEF GalaxyLine
    <3> QED
      BY <2>1, <2>3, <2>4, <2>5, <3>1
  <2>6. CASE r.ok
    <3>1. PICK m : m = r.net
      OBVIOUS
    <3>2. GalaxiesReading(m, f, j)
      BY <2>4, <2>6, <3>1
    <3>3. s = GalaxyLine(fs, Universe, Result(TRUE, m), line)
      BY <2>2, <2>3, <2>6, <3>1 DEF GalaxyLine, Result
    <3>4. IF s.ok THEN GalaxiesReading(s.net, f, j + 1) ELSE IsNet(s.net)
      BY <2>3, <3>2, <3>3, GalaxyStep
    <3> QED
      BY <2>1, <2>3, <3>4
  <2> QED
    BY <2>5, <2>6
<1> HIDE DEF T
<1>5. 0..N \subseteq T
  BY <1>1, <1>3, <1>4, AllUpTo
<1> QED
  BY <1>5 DEF T

(* What loading the universe does: afterwards everything has the value of  *)
(* its argument.                                                           *)
UniverseLoaded(r) ==
    /\ IsNet(r.net)
    /\ r.ok => Apart(r.net) = {}

LEMMA UniverseFacts ==
    ASSUME NEW fs, AreFiles(fs), NEW n, IsNet(n), NEW r, r = LineLoad(fs, n, Universe)
    PROVE  UniverseLoaded(r)
<1>1. PICK f, N : f = fs[0] /\ N = Len(f.blocks)
  OBVIOUS
<1>2. IsFile(f, Names) /\ IsFile(fs[1], {starName}) /\ N \in Nat
  BY <1>1 DEF AreFiles, IsFile
<1>3. PICK h : /\ GalaxiesRead(h, fs, f, n, Universe, N)
               /\ r = IF h[N].ok THEN KrnVerifyParams(h[N].net, Universe)
                      ELSE Result(FALSE, RemoveChildren(h[N].net, Universe))
  <2>1. GalaxiesLoaded(r, fs, f, n, Universe, N)
    BY <1>1, <1>2, GalaxiesReadRun
  <2> QED
    BY <2>1 DEF GalaxiesLoaded
<1>4. \A j \in 0..N : IF h[j].ok THEN GalaxiesReading(h[j].net, f, j) ELSE IsNet(h[j].net)
  BY <1>1, <1>2, <1>3, GalaxyLoop
<1>5. PICK e : e = h[N].net
  OBVIOUS
<1>6. IF h[N].ok THEN GalaxiesReading(e, f, N) ELSE IsNet(e)
  <2>1. N \in 0..N
    BY <1>2
  <2> QED
    BY <1>4, <1>5, <2>1
<1>7. Universe \in Blocks /\ Universe \in Present(e)
  BY Paths DEF Present
<1>8. CASE ~h[N].ok
  <2>1. r = Result(FALSE, RemoveChildren(e, Universe))
    BY <1>3, <1>5, <1>8
  <2>2. PICK m : m = RemoveChildren(e, Universe)
    OBVIOUS
  <2>3. RemovedIn(e, m, Universe)
    BY <1>6, <1>7, <1>8, <2>2, RemoveChildrenFacts
  <2>4. r.ok = FALSE /\ r.net = m
    BY <2>1, <2>2 DEF Result
  <2> QED
    BY <2>3, <2>4 DEF RemovedIn, UniverseLoaded
<1>9. CASE h[N].ok
  <2>1. IsNet(e) /\ TypedBelow(e, Universe) /\ \A x \in Apart(e) : Front(x[1]) = Universe
    BY <1>6, <1>9 DEF GalaxiesReading
  <2>2. r = KrnVerifyParams(e, Universe)
    BY <1>3, <1>5, <1>9
  <2>3. Frame(e, r.net, Universe) /\ (r.ok => Settled(e, r.net, Universe))
    BY <1>7, <2>1, <2>2, VerifyFacts
  <2>4. ASSUME r.ok, NEW x \in Apart(r.net)
        PROVE  FALSE
    <3>1. x[1] \in Blocks /\ x[1] # Universe
      BY DEF Apart, Bindings
    <3>2. IsPrefix(Universe, x[1])
      BY <1>7, <3>1, PrefixOf
    <3>3. Front(x[1]) # Universe /\ x \in Apart(e)
      BY <2>3, <2>4, <3>1, <3>2 DEF Settled
    <3> QED
      BY <2>1, <3>3
  <2> QED
    BY <2>3, <2>4 DEF Frame, UniverseLoaded
<1> QED
  BY <1>8, <1>9

-----------------------------------------------------------------------------
(* Commands that change one parameter, or remove blocks. *)

(* Parameter i of b is set to p, which is not bound or what it was, and    *)
(* handed on.                                                              *)
SlotLeft(n, m, p) ==
    /\ IsNet(m) /\ m.kids = n.kids
    /\ \A x \in Apart(m) : x \in Apart(n) \/ (p # NULL /\ x \in Unreached(m))

LEMMA SlotLeaves ==
    ASSUME NEW n, IsNet(n), NEW b \in Present(n), NEW i \in Index, NEW p \in Param \cup {NULL},
           ~IsBound(p) \/ p = n.param[b][i],
           NEW M \in [Models -> [Index -> Default \cup {NULL}]], NEW F \in [Models -> BOOLEAN],
           NEW n1, n1 = WithSlot(n, M, F, b, i, p), NEW m, m = propagate_arg(n1, b, i)
    PROVE  SlotLeft(n, m, p) /\ m.param[b][i] = p /\ m.model = M /\ m.flag = F
<1>1. b \in Blocks
  BY DEF Present
<1>2. b = Universe => ~IsBound(p)
  BY NetFields
<1>3. n1.kids = n.kids /\ n1.model = M /\ n1.flag = F /\ n1.param[b][i] = p /\ OneSlot(n, n1, b, i)
      /\ IsNet(n1)
  BY <1>2, SlotNet
<1>4. IsNet(m) /\ SameShape(n1, m) /\ Propagated(n1, m, b, i)
  BY <1>1, <1>3, PropagateFacts
<1>5. m.kids = n.kids /\ m.model = M /\ m.flag = F
  BY <1>3, <1>4 DEF SameShape
<1>6. ~IsStrictPrefix(b, b)
  BY DEF IsStrictPrefix
<1>7. m.param[b][i] = p
  BY <1>1, <1>3, <1>4, <1>6 DEF Propagated
<1>8. ASSUME NEW x \in Apart(m)
      PROVE  x \in Apart(n) \/ (p # NULL /\ x \in Unreached(m))
  <2>1. CASE x # <<b, i>>
    BY <1>1, <1>3, <2>1, SlotApart
  <2>2. CASE x = <<b, i>>
    <3>1. x \in Bindings(m) /\ x[1] = b /\ x[2] = i
      BY <2>2 DEF Apart
    <3>2. IsBound(p) /\ p = n.param[b][i] /\ b # Universe
      BY <1>7, <3>1 DEF Bindings
    <3>3. PICK g : g = Front(b)
      OBVIOUS
    <3>4. g \in Blocks /\ g # b /\ ~IsStrictPrefix(b, g)
      <4>1. g \in Blocks /\ g # b /\ b # Front(g)
        BY <1>1, <3>2, <3>3, BlockKinds, Paths
      <4> QED
        BY <1>1, <3>2, <4>1, StrictPrefixOf
    <3>5. \A j \in Index : m.param[g][j] = n.param[g][j]
      BY <1>3, <1>4, <3>4 DEF Propagated, OneSlot
    <3>6. p.arg \in Index /\ x \in Bindings(n)
      BY <1>4, <1>7, <3>1, <3>2, BindingFacts DEF Bindings
    <3>7. Given(m, x) = Given(n, x)
      BY <1>7, <3>1, <3>2, <3>3, <3>5, <3>6 DEF Given
    <3>8. x \in Apart(n)
      BY <1>7, <3>1, <3>2, <3>6, <3>7 DEF Apart
    <3> QED
      BY <3>8
  <2> QED
    BY <2>1, <2>2
<1> QED
  BY <1>4, <1>5, <1>7, <1>8 DEF SlotLeft

(* A parameter that is bound to another argument, or turned off. *)
LEMMA ArgApart ==
    ASSUME NEW n, IsNet(n), NEW m, IsNet(m), NEW b \in Blocks, NEW i \in Index, OneSlot(n, m, b, i),
           n.param[b][i] # NULL, m.param[b][i] # NULL,
           m.param[b][i].type = n.param[b][i].type, m.param[b][i].val = n.param[b][i].val,
           NEW x \in Apart(m), x # <<b, i>>
    PROVE  x \in Apart(n)
<1>1. x \in Bindings(m) /\ Given(m, x) # NULL /\ Given(m, x).type = m.param[x[1]][x[2]].type
      /\ Given(m, x).val # m.param[x[1]][x[2]].val
  BY DEF Apart
<1>2. PICK c, j, g, k : c = x[1] /\ j = x[2] /\ g = Front(c) /\ k = m.param[c][j].arg
  OBVIOUS
<1>3. c \in Blocks /\ j \in Index /\ g \in Blocks /\ k \in Index /\ x = <<c, j>>
  BY <1>1, <1>2, BindingFacts
<1>4. m.param[c][j] = n.param[c][j]
  BY <1>3 DEF OneSlot
<1>5. x \in Bindings(n)
  BY <1>1, <1>2, <1>4 DEF Bindings
<1>6. /\ Given(n, x) # NULL
      /\ Given(n, x).type = Given(m, x).type /\ Given(n, x).val = Given(m, x).val
  <2>1. Given(m, x) = m.param[g][k] /\ Given(n, x) = n.param[g][k]
    BY <1>2, <1>4 DEF Given
  <2>2. CASE g = b /\ k = i
    BY <2>1, <2>2
  <2>3. CASE ~(g = b /\ k = i)
    BY <1>1, <1>3, <2>1, <2>3 DEF OneSlot
  <2> QED
    BY <2>2, <2>3
<1> QED
  BY <1>1, <1>2, <1>4, <1>5, <1>6 DEF Apart

(* What a command leaves: parameters that have not the value of their      *)
(* argument only where Leave allows it.                                    *)
LeavesWell(n, before) ==
    /\ IsNet(n)
    /\ \A x \in Apart(n) : x \in before \/ x \in Unreached(n)

LEMMA LeavesSlot ==
    ASSUME NEW n, NEW m, NEW p, SlotLeft(n, m, p), NEW before, \A x \in Apart(n) : x \in before
    PROVE  LeavesWell(m, before)
BY DEF SlotLeft, LeavesWell

(* A block and what is below it is removed. *)
LEMMA RemoveLeaves ==
    ASSUME NEW n, IsNet(n), NEW b \in Present(n), b # Universe, NEW m, m = RemoveBlock(n, b),
           NEW before, \A x \in Apart(n) : x \in before
    PROVE  LeavesWell(m, before)
<1>1. /\ IsNet(m)
      /\ \A c \in Blocks : IF IsPrefix(b, c) THEN m.param[c] = None ELSE m.param[c] = n.param[c]
  BY RemoveBlockFacts
<1>2. ASSUME NEW x \in Apart(m)
      PROVE  x \in Apart(n)
  <2>1. x \in Bindings(m) /\ Given(m, x) # NULL
    BY DEF Apart
  <2>2. PICK c, g, k : c = x[1] /\ g = Front(c) /\ k = m.param[c][x[2]].arg
    OBVIOUS
  <2>3. c \in Blocks /\ g \in Blocks /\ k \in Index /\ x[2] \in Index
    BY <1>1, <2>1, <2>2, BindingFacts
  <2>4. \A j \in Index : None[j] = NULL
    BY DEF None
  <2>5. m.param[c] # None
    BY <2>1, <2>2, <2>3, <2>4 DEF Bindings, IsBound
  <2>6. m.param[g] # None
    BY <2>1, <2>2, <2>3, <2>4 DEF Given
  <2>7. m.param[c] = n.param[c] /\ m.param[g] = n.param[g]
    BY <1>1, <2>3, <2>5, <2>6
  <2> QED
    BY <2>2, <2>7, ApartSame
<1> QED
  BY <1>1, <1>2 DEF LeavesWell

(* Only the flags of the models change. *)
LEMMA FlagLeaves ==
    ASSUME NEW n, IsNet(n), NEW g \in {Universe} \cup Galaxy, NEW m, m = [n EXCEPT !.flag[ModelOf(g)] = FALSE],
           NEW before, \A x \in Apart(n) : x \in before
    PROVE  LeavesWell(m, before)
<1>1. PICK K, M, F, P : n = [kids |-> K, model |-> M, flag |-> F, param |-> P]
  BY NetParts
<1>2. K = n.kids /\ M = n.model /\ F = n.flag /\ P = n.param
  BY <1>1
<1>3. PICK F1 : F1 = [F EXCEPT ![ModelOf(g)] = FALSE]
  OBVIOUS
<1>4. m = NetRecord(K, M, F1, P)
  BY <1>1, <1>3 DEF NetRecord
<1>5. NetTypes(K, M, F1, P) /\ TreeOK(K, P)
  BY <1>2, <1>3, NetParts, NetTree DEF NetTypes
<1>6. NetFrom(m, K, M, F1, P)
  BY <1>4, <1>5, NetOf
<1>7. IsNet(m) /\ m.param = n.param
  BY <1>2, <1>6 DEF NetFrom
<1>8. Apart(m) = Apart(n)
  BY <1>7 DEF Apart, Bindings, Given
<1> QED
  BY <1>7, <1>8 DEF LeavesWell

-----------------------------------------------------------------------------
(* The commands about arguments. *)

(* Another value in the table of a model, and of a flag. *)
ModelWith(n, g, k, q) == [n.model EXCEPT ![ModelOf(g)][k] = q]
FlagWith(n, g) == [n.flag EXCEPT ![ModelOf(g)] = TRUE]

LEMMA OtherModel ==
    ASSUME NEW n, IsNet(n), NEW g \in {Universe} \cup Galaxy, NEW k \in Index,
           NEW q \in Default \cup {NULL}
    PROVE  /\ ModelWith(n, g, k, q) \in [Models -> [Index -> Default \cup {NULL}]]
           /\ FlagWith(n, g) \in [Models -> BOOLEAN]
<1>1. n.model \in [Models -> [Index -> Default \cup {NULL}]] /\ n.flag \in [Models -> BOOLEAN]
  BY NetParts
<1> QED
  BY <1>1 DEF ModelWith, FlagWith

LEMMA SelectableBlocks ==
    ASSUME NEW n, NEW g \in Present(n) \cap ({Universe} \cup Galaxy)
    PROVE  g \in Present(n) /\ g \in Blocks /\ g \in {Universe} \cup Galaxy /\ ModelOf(g) \in Models
BY Paths, BlockKinds

(* An argument that is set in the model and in the galaxy. *)
ArgNet(n, g, k, q, p) ==
    [n EXCEPT !.model[ModelOf(g)][k] = q, !.param[g][k] = p, !.flag[ModelOf(g)] = TRUE]

ArgFree(n, g, k) ==
    [n EXCEPT !.model[ModelOf(g)][k] = NULL, !.param[g][k] = NULL]

LEMMA ArgNetIs ==
    ASSUME NEW n, IsNet(n), NEW g, NEW k, NEW q, NEW p
    PROVE  ArgNet(n, g, k, q, p) = WithSlot(n, ModelWith(n, g, k, q), FlagWith(n, g), g, k, p)
<1> DEFINE M == ModelWith(n, g, k, q)
           F == FlagWith(n, g)
<1>1. PICK K, M0, F0, P : n = [kids |-> K, model |-> M0, flag |-> F0, param |-> P]
  BY NetParts
<1>2. K = n.kids /\ M0 = n.model /\ F0 = n.flag /\ P = n.param
  BY <1>1
<1>3. PICK P1 : P1 = [P EXCEPT ![g][k] = p]
  OBVIOUS
<1>4. PICK a1 : a1 = [n EXCEPT !.model[ModelOf(g)][k] = q]
  OBVIOUS
<1>5. PICK a2 : a2 = [a1 EXCEPT !.param[g][k] = p]
  OBVIOUS
<1>6. PICK a3 : a3 = [a2 EXCEPT !.flag[ModelOf(g)] = TRUE]
  OBVIOUS
<1>7. a1 = [kids |-> K, model |-> M, flag |-> F0, param |-> P]
  BY <1>1, <1>2, <1>4 DEF ModelWith
<1>8. a2 = [kids |-> K, model |-> M, flag |-> F0, param |-> P1]
  BY <1>3, <1>5, <1>7
<1>9. a3 = [kids |-> K, model |-> M, flag |-> F, param |-> P1]
  BY <1>2, <1>6, <1>8 DEF FlagWith
<1>10. a3 = ArgNet(n, g, k, q, p)
  BY <1>4, <1>5, <1>6 DEF ArgNet
<1> QED
  BY <1>2, <1>3, <1>9, <1>10 DEF WithSlot

LEMMA ArgFreeIs ==
    ASSUME NEW n, IsNet(n), NEW g, NEW k
    PROVE  ArgFree(n, g, k) = WithSlot(n, ModelWith(n, g, k, NULL), n.flag, g, k, NULL)
<1> DEFINE M == ModelWith(n, g, k, NULL)
<1>1. PICK K, M0, F0, P : n = [kids |-> K, model |-> M0, flag |-> F0, param |-> P]
  BY NetParts
<1>2. K = n.kids /\ M0 = n.model /\ F0 = n.flag /\ P = n.param
  BY <1>1
<1>3. PICK P1 : P1 = [P EXCEPT ![g][k] = NULL]
  OBVIOUS
<1>4. PICK a1 : a1 = [n EXCEPT !.model[ModelOf(g)][k] = NULL]
  OBVIOUS
<1>5. PICK a2 : a2 = [a1 EXCEPT !.param[g][k] = NULL]
  OBVIOUS
<1>6. a1 = [kids |-> K, model |-> M, flag |-> F0, param |-> P]
  BY <1>1, <1>2, <1>4 DEF ModelWith
<1>7. a2 = [kids |-> K, model |-> M, flag |-> F0, param |-> P1]
  BY <1>3, <1>5, <1>6
<1>8. a2 = ArgFree(n, g, k)
  BY <1>4, <1>5 DEF ArgFree
<1> QED
  BY <1>2, <1>3, <1>7, <1>8 DEF WithSlot

LEMMA ArgNULLLeaves ==
    ASSUME NEW n, IsNet(n), NEW g \in Present(n), g \in {Universe} \cup Galaxy, NEW k \in Index, NEW m,
           m = propagate_arg(ArgNet(n, g, k, NULL, NULL), g, k),
           NEW before, \A x \in Apart(n) : x \in before
    PROVE  LeavesWell(m, before)
<1>1. PICK M, F : M = ModelWith(n, g, k, NULL) /\ F = FlagWith(n, g)
  OBVIOUS
<1>2. M \in [Models -> [Index -> Default \cup {NULL}]] /\ F \in [Models -> BOOLEAN]
  BY <1>1, OtherModel
<1>3. PICK n1 : n1 = WithSlot(n, M, F, g, k, NULL)
  OBVIOUS
<1>4. m = propagate_arg(n1, g, k)
  BY <1>1, <1>3, ArgNetIs
<1>5. ~IsBound(NULL)
  BY DEF IsBound
<1>6. SlotLeft(n, m, NULL)
  BY <1>2, <1>3, <1>4, <1>5, SlotLeaves
<1> QED
  BY <1>6, LeavesSlot

(* The argument in the model is changed, and the galaxy's own. *)
LEMMA ArgSetLeaves ==
    ASSUME NEW n, IsNet(n), NEW g \in Present(n), g \in {Universe} \cup Galaxy, NEW k \in Index,
           NEW q \in Default, NEW p \in Param \cup {NULL}, ~IsBound(p) \/ p = n.param[g][k], NEW m,
           m = propagate_arg(ArgNet(n, g, k, q, p), g, k),
           NEW before, \A x \in Apart(n) : x \in before
    PROVE  LeavesWell(m, before)
<1>1. PICK M, F : M = ModelWith(n, g, k, q) /\ F = FlagWith(n, g)
  OBVIOUS
<1>2. M \in [Models -> [Index -> Default \cup {NULL}]] /\ F \in [Models -> BOOLEAN]
  BY <1>1, OtherModel
<1>3. PICK n1 : n1 = WithSlot(n, M, F, g, k, p)
  OBVIOUS
<1>4. m = propagate_arg(n1, g, k)
  BY <1>1, <1>3, ArgNetIs
<1>5. SlotLeft(n, m, p)
  BY <1>2, <1>3, <1>4, SlotLeaves
<1> QED
  BY <1>5, LeavesSlot

(* The argument of another type is freed first: everything bound to it is  *)
(* turned off, and nothing else changes.                                   *)
Freed(n, m, g, k) ==
    /\ IsNet(m) /\ m.kids = n.kids
    /\ m.param[g][k] = NULL
    /\ \A x \in Apart(m) : x \in Apart(n)

LEMMA ArgFreed ==
    ASSUME NEW n, IsNet(n), NEW g \in Present(n), g \in {Universe} \cup Galaxy, NEW k \in Index, NEW m,
           m = propagate_arg(ArgFree(n, g, k), g, k)
    PROVE  Freed(n, m, g, k)
<1>1. PICK M, F : M = ModelWith(n, g, k, NULL) /\ F = n.flag
  OBVIOUS
<1>2. M \in [Models -> [Index -> Default \cup {NULL}]] /\ F \in [Models -> BOOLEAN]
  BY <1>1, OtherModel, NetParts
<1>3. PICK n1 : n1 = WithSlot(n, M, F, g, k, NULL)
  OBVIOUS
<1>4. m = propagate_arg(n1, g, k)
  BY <1>1, <1>3, ArgFreeIs
<1>5. ~IsBound(NULL)
  BY DEF IsBound
<1>6. SlotLeft(n, m, NULL) /\ m.param[g][k] = NULL
  BY <1>2, <1>3, <1>4, <1>5, SlotLeaves
<1> QED
  BY <1>6 DEF SlotLeft, Freed

LEMMA RedefinedLeaves ==
    ASSUME IsNet(net), NEW g \in Present(net), g \in {Universe} \cup Galaxy, NEW k \in Index,
           NEW pp \in Default, NEW m, m = Redefined(g, k, pp),
           NEW before, \A x \in Apart(net) : x \in before
    PROVE  LeavesWell(m, before)
<1>1. PICK old : old = net.model[ModelOf(g)][k]
  OBVIOUS
<1>2. PICK freed : freed = IF old = NULL \/ old.type = pp.type THEN net
                           ELSE propagate_arg(ArgFree(net, g, k), g, k)
  OBVIOUS
<1>3. PICK own : own = IF g = Universe THEN pp
                       ELSE IF old = NULL THEN freed.param[g][k]
                       ELSE KrnParamCheck(freed.param[g][k], pp)
  OBVIOUS
<1>4. m = propagate_arg(ArgNet(freed, g, k, pp, own), g, k)
  <2>1. Redefined(g, k, pp) =
          LET o == net.model[ModelOf(g)][k]
              f == IF o = NULL \/ o.type = pp.type THEN net
                   ELSE propagate_arg(ArgFree(net, g, k), g, k)
              w == IF g = Universe THEN pp
                   ELSE IF o = NULL THEN f.param[g][k]
                   ELSE KrnParamCheck(f.param[g][k], pp)
          IN propagate_arg(ArgNet(f, g, k, pp, w), g, k)
    BY DEF Redefined, ArgNet, ArgFree
  <2> QED
    BY <1>1, <1>2, <1>3, <2>1
<1>5. g \in Blocks
  BY DEF Present
<1>6. /\ IsNet(freed) /\ g \in Present(freed)
      /\ \A x \in Apart(freed) : x \in before
      /\ freed = net \/ freed.param[g][k] = NULL
  <2>1. CASE old = NULL \/ old.type = pp.type
    BY <1>2, <2>1
  <2>2. CASE ~(old = NULL \/ old.type = pp.type)
    <3>1. freed = propagate_arg(ArgFree(net, g, k), g, k)
      BY <1>2, <2>2
    <3>2. Freed(net, freed, g, k)
      BY <3>1, ArgFreed
    <3> QED
      BY <3>2 DEF Freed, Present
  <2> QED
    BY <2>1, <2>2
<1>7. freed.param[g][k] \in Param \cup {NULL} /\ pp \in Param /\ pp.type \in Types /\ ~IsBound(pp)
  BY <1>5, <1>6, ParamType, ParamFacts
<1>8. own \in Param \cup {NULL} /\ (~IsBound(own) \/ own = freed.param[g][k])
  <2>1. CASE g = Universe
    BY <1>3, <1>7, <2>1
  <2>2. CASE g # Universe /\ old = NULL
    BY <1>3, <1>7, <2>2
  <2>3. CASE g # Universe /\ old # NULL
    <3>1. own = KrnParamCheck(freed.param[g][k], pp)
      BY <1>3, <2>3
    <3>2. own = freed.param[g][k] \/ own \in Default
      BY <1>7, <3>1, ParamFacts DEF KrnParamCheck
    <3> QED
      BY <1>7, <3>2, ParamFacts
  <2> QED
    BY <2>1, <2>2, <2>3
<1> QED
  BY <1>4, <1>6, <1>8, ArgSetLeaves

(* All arguments go. *)
ArgsGone(n, g) ==
    [n EXCEPT !.model[ModelOf(g)] = None, !.param[g] = None, !.flag[ModelOf(g)] = TRUE]

BoundToAny(n, g) == UNION {BoundTo(n, g, k) : k \in Index}

ArgsGoneIn(n, m, g) ==
    /\ IsNet(m) /\ m.kids = n.kids /\ m.model = [n.model EXCEPT ![ModelOf(g)] = None]
    /\ m.param[g] = None
    /\ \A c \in Blocks : c # g => m.param[c] = n.param[c]

LEMMA ArgsGoneFacts ==
    ASSUME NEW n, IsNet(n), NEW g \in Present(n), g \in {Universe} \cup Galaxy, NEW n1,
           n1 = ArgsGone(n, g)
    PROVE  ArgsGoneIn(n, n1, g)
<1>1. PICK K, M, F, P : n = [kids |-> K, model |-> M, flag |-> F, param |-> P]
  BY NetParts
<1>2. K = n.kids /\ M = n.model /\ F = n.flag /\ P = n.param
  BY <1>1
<1>3. PICK M1, F1, P1 : /\ M1 = [M EXCEPT ![ModelOf(g)] = None]
                        /\ F1 = [F EXCEPT ![ModelOf(g)] = TRUE]
                        /\ P1 = [P EXCEPT ![g] = None]
  OBVIOUS
<1>4. n1 = NetRecord(K, M1, F1, P1)
  BY <1>1, <1>3 DEF NetRecord, ArgsGone
<1>5. g \in Blocks
  BY DEF Present
<1>6. NetTypes(K, M, F, P) /\ TreeOK(K, P)
  BY <1>2, NetParts, NetTree DEF NetTypes
<1>7. /\ None \in Table /\ None \in [Index -> Default \cup {NULL}]
      /\ \A i \in Index : None[i] = NULL
  BY DEF None, Table
<1>8. P1[g] = None /\ \A c \in Blocks : c # g => P1[c] = P[c]
  BY <1>3, <1>5, <1>6 DEF NetTypes
<1>9. NetTypes(K, M1, F1, P1)
  BY <1>3, <1>6, <1>7 DEF NetTypes
<1>10. TreeOK(K, P1)
  <2>1. \A i \in Index : ~IsBound(P1[Universe][i])
    BY <1>6, <1>7, <1>8, Paths DEF TreeOK, IsBound
  <2>2. \A b \in Blocks : P[b] = None => P1[b] = None
    BY <1>8
  <2> QED
    BY <1>6, <2>1, <2>2 DEF TreeOK
<1>11. NetFrom(n1, K, M1, F1, P1)
  BY <1>4, <1>9, <1>10, NetOf
<1>12. /\ IsNet(n1) /\ n1.kids = n.kids /\ n1.model = [n.model EXCEPT ![ModelOf(g)] = None]
       /\ n1.param = P1
  BY <1>2, <1>3, <1>11 DEF NetFrom
<1> QED
  BY <1>2, <1>8, <1>12 DEF ArgsGoneIn

LEMMA ArgNoneLeaves ==
    ASSUME NEW n, IsNet(n), NEW g \in Present(n), g \in {Universe} \cup Galaxy, NEW n1,
           n1 = ArgsGone(n, g), NEW m, m = TurnOff(n1, BoundToAny(n1, g)),
           NEW before, \A x \in Apart(n) : x \in before
    PROVE  LeavesWell(m, before)
<1>1. ArgsGoneIn(n, n1, g)
  BY ArgsGoneFacts
<1>2. PICK P, P1 : P = n.param /\ P1 = n1.param
  OBVIOUS
<1>3. g \in Blocks
  BY DEF Present
<1>4. \A i \in Index : None[i] = NULL
  BY DEF None
<1>5. P1[g] = None /\ \A c \in Blocks : c # g => P1[c] = P[c]
  BY <1>1, <1>2 DEF ArgsGoneIn
<1>6. IsNet(n1) /\ n1.param = P1
  BY <1>1, <1>2 DEF ArgsGoneIn
<1>7. PICK X : X = BoundToAny(n1, g)
  OBVIOUS
<1>8. X \subseteq Bindings(n1)
  <2>1. \A k \in Index : BoundTo(n1, g, k) \subseteq Bindings(n1)
    BY <1>3, <1>6, BoundToFacts
  <2> QED
    BY <1>7, <2>1 DEF BoundToAny
<1>9. /\ \A b \in Blocks, i \in Index :
            m.param[b][i] = IF <<b, i>> \in X THEN [n1.param[b][i] EXCEPT !.arg = Unbound]
                            ELSE n1.param[b][i]
      /\ IsNet(m)
  <2>1. m = TurnOff(n1, X)
    BY <1>7
  <2>2. TurnedFrom(n1, m, X) /\ IsNet(m)
    BY <1>6, <1>8, <2>1, TurnOffFacts
  <2> QED
    BY <2>2 DEF TurnedFrom
<1>10. ASSUME NEW x \in Apart(m)
       PROVE  x \in Apart(n)
  <2>1. x \in Bindings(m) /\ Given(m, x) # NULL /\ Given(m, x).type = m.param[x[1]][x[2]].type
        /\ Given(m, x).val # m.param[x[1]][x[2]].val
    BY DEF Apart
  <2>2. PICK c, j, e, k : c = x[1] /\ j = x[2] /\ e = Front(c) /\ k = m.param[c][j].arg
    OBVIOUS
  <2>3. c \in Blocks /\ c # Universe /\ j \in Index /\ e \in Blocks /\ k \in Index /\ x = <<c, j>>
        /\ IsBound(m.param[c][j])
    BY <1>9, <2>1, <2>2, BindingFacts DEF Bindings
  <2>4. m.param[c][j] = n1.param[c][j]
    <3>1. CASE <<c, j>> \in X
      <4>1. n1.param[c][j] \in Param
        BY <1>6, <1>8, <2>2, <2>3, <3>1, BindingFacts
      <4>2. m.param[c][j] = [n1.param[c][j] EXCEPT !.arg = Unbound]
        BY <1>9, <2>3, <3>1
      <4>3. m.param[c][j].arg = Unbound
        BY <4>1, <4>2 DEF Param
      <4> QED
        BY <2>3, <4>3 DEF IsBound
    <3>2. CASE <<c, j>> \notin X
      BY <1>9, <2>3, <3>2
    <3> QED
      BY <3>1, <3>2
  <2>5. c # g
    <3>1. m.param[c][j] # NULL
      BY <2>3 DEF IsBound
    <3> QED
      BY <1>4, <1>5, <1>6, <2>3, <2>4, <3>1
  <2>6. n1.param[e][k] \in Param \cup {NULL}
    BY <1>6, <2>3, ParamType
  <2>7. Given(m, x) = m.param[e][k] /\ n1.param[e][k] # NULL
    <3>1. Given(m, x) = m.param[e][k]
      BY <2>2 DEF Given
    <3>2. CASE <<e, k>> \in X
      <4>1. IsBound(n1.param[e][k])
        BY <1>8, <3>2 DEF Bindings
      <4> QED
        BY <3>1, <4>1 DEF IsBound
    <3>3. CASE <<e, k>> \notin X
      BY <1>9, <2>1, <2>3, <3>1, <3>3
    <3> QED
      BY <3>2, <3>3
  <2>8. n1.param[e][k].type = m.param[e][k].type /\ n1.param[e][k].val = m.param[e][k].val
    <3>1. CASE <<e, k>> \in X
      <4>1. m.param[e][k] = [n1.param[e][k] EXCEPT !.arg = Unbound]
        BY <1>9, <2>3, <3>1
      <4> QED
        BY <2>6, <2>7, <4>1 DEF Param
    <3>2. CASE <<e, k>> \notin X
      BY <1>9, <2>3, <3>2
    <3> QED
      BY <3>1, <3>2
  <2>9. e # g
    BY <1>4, <1>5, <1>6, <2>3, <2>7
  <2>10. n1.param[c] = n.param[c] /\ n1.param[e] = n.param[e]
    BY <1>2, <1>5, <1>6, <2>3, <2>5, <2>9
  <2>11. n.param[c][j] = m.param[c][j] /\ n.param[e][k] = n1.param[e][k]
    BY <2>4, <2>10
  <2>12. Given(n, x) = n.param[e][k]
    BY <2>2, <2>11 DEF Given
  <2>13. x \in Bindings(n)
    BY <2>1, <2>2, <2>11 DEF Bindings
  <2>14. /\ Given(n, x) # NULL
         /\ Given(n, x).type = n.param[x[1]][x[2]].type
         /\ Given(n, x).val # n.param[x[1]][x[2]].val
    <3>1. PICK p, q, q1 : p = m.param[c][j] /\ q = m.param[e][k] /\ q1 = n1.param[e][k]
      BY SMTT(30)
    <3>2. n.param[x[1]][x[2]] = p /\ Given(n, x) = q1
      BY <2>2, <2>11, <2>12, <3>1
    <3>3. q1 # NULL /\ q1.type = q.type /\ q1.val = q.val
      BY <2>7, <2>8, <3>1
    <3>4. q.type = p.type /\ q.val # p.val
      BY <2>1, <2>2, <2>7, <3>1, Zenon
    <3> QED
      BY <3>2, <3>3, <3>4
  <2> QED
    BY <2>13, <2>14 DEF Apart
<1> QED
  BY <1>9, <1>10 DEF LeavesWell

-----------------------------------------------------------------------------
(* The commands about one parameter. *)

(* Parameter i of b is p, and the rest of the net as it was. *)
SlotSet(n, m, b, i, p) ==
    IsNet(m) /\ m.kids = n.kids /\ m.param[b][i] = p /\ OneSlot(n, m, b, i)
        /\ m = WithSlot(n, n.model, n.flag, b, i, p)

WithParam(n, b, i, p) == [n EXCEPT !.param[b][i] = p]

LEMMA OneSet ==
    ASSUME NEW n, IsNet(n), NEW b \in Present(n), b # Universe, NEW i \in Index,
           NEW p \in Param \cup {NULL}, NEW m, m = WithParam(n, b, i, p)
    PROVE  SlotSet(n, m, b, i, p)
<1>1. PICK K, M, F, P : n = [kids |-> K, model |-> M, flag |-> F, param |-> P]
  BY NetParts
<1>2. K = n.kids /\ M = n.model /\ F = n.flag /\ P = n.param
  BY <1>1
<1>3. m = [kids |-> K, model |-> M, flag |-> F, param |-> [P EXCEPT ![b][i] = p]]
  BY <1>1 DEF WithParam
<1>4. m = WithSlot(n, n.model, n.flag, b, i, p)
  BY <1>2, <1>3 DEF WithSlot
<1>5. M \in [Models -> [Index -> Default \cup {NULL}]] /\ F \in [Models -> BOOLEAN]
  BY <1>2, NetParts
<1>6. m.kids = n.kids /\ m.param[b][i] = p /\ OneSlot(n, m, b, i) /\ IsNet(m)
  <2>1. m = WithSlot(n, M, F, b, i, p)
    BY <1>2, <1>4
  <2>2. MayHave(b, p)
    BY DEF MayHave
  <2>3. SlotIn(n, m, M, F, b, i, p)
    BY <1>5, <2>1, <2>2, SlotIs
  <2> QED
    BY <2>3 DEF SlotIn
<1> QED
  BY <1>4, <1>6 DEF SlotSet

(* A value of its own, or a default. *)
LEMMA ValueLeaves ==
    ASSUME NEW n, IsNet(n), NEW b \in Present(n), b # Universe, NEW i \in Index,
           NEW p \in Param \cup {NULL}, ~IsBound(p), NEW n1, SlotSet(n, n1, b, i, p),
           NEW m, m = propagate_arg(n1, b, i), NEW before, \A x \in Apart(n) : x \in before
    PROVE  LeavesWell(m, before)
<1>1. PICK M, F : M = n.model /\ F = n.flag
  OBVIOUS
<1>2. n1 = WithSlot(n, M, F, b, i, p)
  BY <1>1 DEF SlotSet
<1>3. M \in [Models -> [Index -> Default \cup {NULL}]] /\ F \in [Models -> BOOLEAN]
  BY <1>1, NetParts
<1>4. SlotLeft(n, m, p)
  BY <1>2, <1>3, SlotLeaves
<1> QED
  BY <1>4, LeavesSlot

(* Turned off, the value it had. *)
LEMMA OffLeaves ==
    ASSUME NEW n, IsNet(n), NEW b \in Present(n), b # Universe, NEW i \in Index, n.param[b][i] # NULL,
           NEW p, p = [n.param[b][i] EXCEPT !.arg = Unbound], NEW m, SlotSet(n, m, b, i, p),
           NEW before, \A x \in Apart(n) : x \in before
    PROVE  LeavesWell(m, before)
<1>1. b \in Blocks /\ n.param[b][i] \in Param
  BY ParamType DEF Present
<1>2. p.type = n.param[b][i].type /\ p.val = n.param[b][i].val /\ p.arg = Unbound /\ p \in Param
  BY <1>1 DEF Param
<1>3. p # NULL /\ ~IsBound(p)
  BY <1>2, ParamFacts DEF IsBound
<1>4. IsNet(m) /\ m.param[b][i] = p /\ OneSlot(n, m, b, i)
  BY DEF SlotSet
<1>5. ASSUME NEW x \in Apart(m)
      PROVE  x \in Apart(n)
  <2>1. x # <<b, i>>
    BY <1>3, <1>4 DEF Apart, Bindings
  <2>2. m.param[b][i] # NULL /\ m.param[b][i].type = n.param[b][i].type
        /\ m.param[b][i].val = n.param[b][i].val
    BY <1>2, <1>3, <1>4
  <2> QED
    BY <1>1, <1>4, <2>1, <2>2, ArgApart
<1> QED
  BY <1>4, <1>5 DEF LeavesWell

(* Bound to an argument, it hears its value with all others that are. *)
LEMMA BindLeaves ==
    ASSUME NEW n, IsNet(n), NEW b \in Present(n), b # Universe, NEW i \in Index, n.param[b][i] # NULL,
           NEW k \in Index, NEW p, p = [n.param[b][i] EXCEPT !.arg = k],
           NEW n1, SlotSet(n, n1, b, i, p), NEW m, m = propagate_arg(n1, Front(b), k),
           NEW before, \A x \in Apart(n) : x \in before
    PROVE  LeavesWell(m, before)
<1>1. b \in Blocks /\ n.param[b][i] \in Param
  BY ParamType DEF Present
<1>2. p.type = n.param[b][i].type /\ p.val = n.param[b][i].val /\ p.arg = k /\ p \in Param
  BY <1>1 DEF Param
<1>3. p # NULL /\ IsBound(p)
  BY <1>2, ParamFacts, Indexes DEF IsBound
<1>4. IsNet(n1) /\ n1.param[b][i] = p /\ OneSlot(n, n1, b, i)
  BY DEF SlotSet
<1>5. PICK g : g = Front(b)
  OBVIOUS
<1>6. g \in Blocks /\ m = propagate_arg(n1, g, k)
  BY <1>1, <1>5, BlockKinds, Paths
<1>7. IsNet(m)
  BY <1>4, <1>6, PropagateFacts
<1>8. ASSUME NEW x \in Apart(m)
      PROVE  x \in Apart(n) \/ x \in Unreached(m)
  <2>1. \/ x \in Apart(n1) /\ x \notin BoundTo(n1, g, k)
        \/ x \in Unreached(m)
    BY <1>4, <1>6, PropagateApart
  <2>2. CASE x \in Apart(n1) /\ x \notin BoundTo(n1, g, k)
    <3>1. x # <<b, i>>
      <4>1. ASSUME x = <<b, i>>
            PROVE  FALSE
        <5>1. x \in Bindings(n1) /\ Front(x[1]) = g /\ n1.param[x[1]][x[2]].arg = k
          BY <1>2, <1>4, <1>5, <2>2, <4>1 DEF Apart
        <5>2. BoundTo(n1, g, k) = {y \in Bindings(n1) : Front(y[1]) = g /\ n1.param[y[1]][y[2]].arg = k}
          BY <1>4, <1>6, BoundToFacts
        <5> QED
          BY <2>2, <5>1, <5>2
      <4> QED
        BY <4>1
    <3>2. n1.param[b][i] # NULL /\ n1.param[b][i].type = n.param[b][i].type
          /\ n1.param[b][i].val = n.param[b][i].val
      BY <1>2, <1>3, <1>4
    <3> QED
      BY <1>1, <1>4, <2>2, <3>1, <3>2, ArgApart
  <2> QED
    BY <2>1, <2>2
<1> QED
  BY <1>7, <1>8 DEF LeavesWell

-----------------------------------------------------------------------------
(* What store writes is a file. *)

LEMMA AssocIndex ==
    ASSUME NEW table, NEW k \in Index, NEW before \in [Index -> Index]
    PROVE  Assoc(table, k, before) \in Index
<1>1. 0 \in Index /\ before[k] \in Index /\ k \in 0..(MAX_PARAM - 1) /\ MAX_PARAM \in Nat
  BY Indexes DEF Index
<1>2. Cardinality({i \in 0..(k - 1) : table[i] # NULL}) \in Index
  <2>1. PICK S : S = {i \in 0..(k - 1) : table[i] # NULL}
    OBVIOUS
  <2>2. S \subseteq 0..(k - 1) /\ 0 \in Int /\ k - 1 \in Int
    BY <1>1, <2>1
  <2>3. IsFiniteSet(0..(k - 1)) /\ Cardinality(0..(k - 1)) = IF 0 > k - 1 THEN 0 ELSE (k - 1) - 0 + 1
    BY <2>2, FS_Interval
  <2>4. IsFiniteSet(S) /\ Cardinality(S) <= Cardinality(0..(k - 1))
    BY <2>2, <2>3, FS_Subset
  <2>5. Cardinality(S) \in Nat
    BY <2>4, FS_CardinalityType
  <2>6. Cardinality(0..(k - 1)) = k
    BY <1>1, <2>3
  <2>7. Cardinality(S) \in 0..(MAX_PARAM - 1)
    BY <1>1, <2>4, <2>5, <2>6
  <2> QED
    BY <2>1, <2>7 DEF Index
<1> QED
  BY <1>1, <1>2 DEF Assoc

LEMMA StoredArgs ==
    ASSUME NEW table \in [Index -> Default \cup {NULL}]
    PROVE  PrInfoArgs(table) \in [Index -> Default \cup {NULL}]
<1>1. ASSUME NEW i \in Index, NEW old, old \subseteq Index
      PROVE  (IF old = {} THEN NULL ELSE table[CHOOSE k \in old : TRUE]) \in Default \cup {NULL}
  <2>1. CASE old = {}
    BY <2>1
  <2>2. CASE old # {}
    <3>1. (CHOOSE k \in old : TRUE) \in old
      BY <2>2
    <3> QED
      BY <1>1, <2>2, <3>1
  <2> QED
    BY <2>1, <2>2
<1>2. ASSUME NEW i \in Index
      PROVE  PrInfoArgs(table)[i] \in Default \cup {NULL}
  <2>1. PICK old : old = {k \in Index : table[k] # NULL
                                        /\ Cardinality({j \in 0..(k - 1) : table[j] # NULL}) = i}
    OBVIOUS
  <2>2. PrInfoArgs(table)[i] = IF old = {} THEN NULL ELSE table[CHOOSE k \in old : TRUE]
    BY <2>1 DEF PrInfoArgs
  <2>3. old \subseteq Index
    BY <2>1
  <2> QED
    BY <1>1, <2>2, <2>3
<1>3. PICK T : T = PrInfoArgs(table)
  OBVIOUS
<1>4. T = [i \in Index |-> T[i]]
  BY <1>3 DEF PrInfoArgs
<1> QED
  BY <1>2, <1>3, <1>4

LEMMA StoredParams ==
    ASSUME NEW table \in [Index -> Param \cup {NULL}], Contiguous(table), NEW args,
           NEW before \in [Index -> Index]
    PROVE  PrInfoParams(table, args, before) \in Seq(LineParams)
<1>1. PICK N : N = KrnParamCount(table)
  OBVIOUS
<1>2. N \in 0..MAX_PARAM /\ MAX_PARAM \in Nat
  BY <1>1, CountBound, Indexes
<1>3. PICK s : s = PrInfoParams(table, args, before)
  OBVIOUS
<1>4. ASSUME NEW i \in 1..N
      PROVE  s[i] \in LineParams
  <2>1. PICK p : p = table[i - 1]
    OBVIOUS
  <2>2. i - 1 \in Index /\ i - 1 \in 0..(N - 1)
    BY <1>2 DEF Index
  <2>3. p \in Param
    BY <1>1, <2>1, <2>2 DEF Contiguous
  <2>4. s[i] = IF IsBound(p) THEN [type |-> "arg", val |-> Zero, arg |-> Assoc(args, p.arg, before)]
               ELSE p
    BY <1>1, <1>3, <2>1 DEF PrInfoParams
  <2>5. CASE IsBound(p)
    <3>1. p.arg \in Index
      BY <2>3, <2>5, ParamFacts DEF IsBound
    <3>2. PICK a : a = Assoc(args, p.arg, before)
      OBVIOUS
    <3>3. a \in Index
      BY <3>1, <3>2, AssocIndex
    <3>4. s[i] = [type |-> "arg", val |-> Zero, arg |-> a]
      BY <2>4, <2>5, <3>2
    <3>5. s[i] \in Param /\ s[i].type = "arg"
      BY <3>3, <3>4, ParameterAssumption DEF Param
    <3> QED
      BY <3>5 DEF LineParams
  <2>6. CASE ~IsBound(p)
    BY <2>3, <2>4, <2>6 DEF LineParams
  <2> QED
    BY <2>5, <2>6
<1>5. s = [i \in 1..N |-> s[i]]
  BY <1>1, <1>3 DEF PrInfoParams
<1>6. s \in [1..N -> LineParams]
  BY <1>4, <1>5
<1> QED
  BY <1>2, <1>3, <1>6 DEF Seq

(* A child is known by its name. *)
LEMMA ChildNames ==
    ASSUME NEW g \in {Universe} \cup Galaxy, NEW names,
           names = IF g = Universe THEN Names ELSE {starName},
           NEW b \in Blocks, b # Universe, Front(b) = g
    PROVE  Last(b) \in names /\ b = Append(g, Last(b))
<1>1. b \in Galaxy \/ b \in Star
  BY BlockKinds
<1>2. CASE b \in Galaxy
  <2>1. PICK h \in Names : b = <<h>>
    BY <1>2 DEF Galaxy
  <2>2. g = Universe
    BY <1>2, Paths
  <2>3. Last(b) = h
    BY <2>1 DEF Last
  <2>4. Append(<<>>, h) = <<h>>
    BY Pairs
  <2> QED
    BY <2>1, <2>2, <2>3, <2>4 DEF Universe
<1>3. CASE b \in Star
  <2>1. g \in Galaxy /\ b = StarIn(g)
    BY <1>3, BlockKinds
  <2>2. PICK h \in Names : g = <<h>>
    BY <2>1 DEF Galaxy
  <2>3. b = <<h, starName>>
    BY <2>1, <2>2, Pairs DEF StarIn
  <2>4. Last(b) = starName
    BY <2>3 DEF Last
  <2> QED
    BY <2>1, <2>4, Paths DEF StarIn
<1> QED
  BY <1>1, <1>2, <1>3

LEMMA StoredFile ==
    ASSUME NEW n, IsNet(n), NEW g \in {Universe} \cup Galaxy, Printable(n, g),
           NEW before \in [Index -> Index], NEW names, names = IF g = Universe THEN Names ELSE {starName}
    PROVE  IsFile(Stored(n, g, before), names)
<1>1. g \in Blocks /\ ModelOf(g) \in Models
  BY BlockKinds, Paths
<1>2. PICK args, kids : args = n.model[ModelOf(g)] /\ kids = n.kids[g]
  OBVIOUS
<1>3. PICK f : f = Stored(n, g, before)
  OBVIOUS
<1>4. CASE kids = <<>>
  <2>1. f = [declared |-> FALSE, args |-> None, blocks |-> <<>>]
    BY <1>2, <1>3, <1>4 DEF Stored
  <2>2. f.declared = FALSE /\ f.args = None /\ f.blocks = <<>>
    BY <2>1
  <2>3. None \in [Index -> Default \cup {NULL}]
    BY DEF None
  <2>4. <<>> \in Seq([name : names, params : Seq(LineParams)])
    OBVIOUS
  <2>5. \A i, j \in DOMAIN f.blocks : f.blocks[i].name = f.blocks[j].name => i = j
    BY <2>2
  <2> QED
    BY <1>3, <2>2, <2>3, <2>4, <2>5 DEF IsFile
<1>5. CASE kids # <<>>
  <2>1. PICK blocks : blocks = [j \in DOMAIN kids |->
                                  [name |-> Last(kids[j]),
                                   params |-> PrInfoParams(n.param[kids[j]], args, before)]]
    OBVIOUS
  <2>2. f = [declared |-> TRUE, args |-> PrInfoArgs(args), blocks |-> blocks]
    BY <1>2, <1>3, <1>5, <2>1 DEF Stored
  <2>3. f.declared = TRUE /\ f.args = PrInfoArgs(args) /\ f.blocks = blocks
    BY <2>2
  <2>4. args \in [Index -> Default \cup {NULL}]
    BY <1>1, <1>2, NetParts
  <2>5. PrInfoArgs(args) \in [Index -> Default \cup {NULL}]
    BY <2>4, StoredArgs
  <2>6. /\ kids \in Seq(Blocks \ {Universe}) /\ IsInjective(kids)
        /\ \A c \in Range(kids) : c \in Blocks /\ c # Universe /\ Front(c) = g
    BY <1>1, <1>2, NetFields
  <2>7. DOMAIN kids = 1..Len(kids) /\ Len(kids) \in Nat
    BY <2>6
  <2>8. ASSUME NEW j \in 1..Len(kids)
        PROVE  /\ kids[j] \in Range(kids)
               /\ blocks[j].name = Last(kids[j]) /\ blocks[j].name \in names
               /\ kids[j] = Append(g, blocks[j].name)
               /\ blocks[j] \in [name : names, params : Seq(LineParams)]
    <3>1. PICK c, t : c = kids[j] /\ t = n.param[c]
      OBVIOUS
    <3>2. c \in Range(kids)
      BY <2>7, <3>1 DEF Range
    <3>3. c \in Blocks /\ c # Universe /\ Front(c) = g
      BY <2>6, <3>2
    <3>4. t \in [Index -> Param \cup {NULL}] /\ Contiguous(t)
      BY <1>2, <3>1, <3>2, <3>3, NetFields DEF Printable
    <3>5. PICK ps : ps = PrInfoParams(t, args, before)
      OBVIOUS
    <3>6. ps \in Seq(LineParams)
      BY <3>4, <3>5, StoredParams
    <3>7. Last(c) \in names /\ c = Append(g, Last(c))
      BY <3>3, ChildNames
    <3>8. blocks[j] = [name |-> Last(c), params |-> ps]
      BY <2>1, <2>7, <3>1, <3>5
    <3> QED
      BY <3>1, <3>2, <3>6, <3>7, <3>8
  <2>9. DOMAIN blocks = 1..Len(kids)
    BY <2>1, <2>7
  <2>10. blocks \in Seq([name : names, params : Seq(LineParams)])
    <3>1. PICK S : S = [name : names, params : Seq(LineParams)]
      OBVIOUS
    <3>2. \A j \in 1..Len(kids) : blocks[j] \in S
      BY <2>8, <3>1
    <3>3. blocks = [j \in 1..Len(kids) |-> blocks[j]]
      BY <2>1, <2>7
    <3>4. blocks \in [1..Len(kids) -> S]
      BY <3>2, <3>3
    <3>5. PICK N \in Nat : N = Len(kids)
      BY <2>7
    <3>6. blocks \in Seq(S)
      BY <3>4, <3>5 DEF Seq
    <3> QED
      BY <3>1, <3>6
  <2>11. ASSUME NEW i \in DOMAIN blocks, NEW j \in DOMAIN blocks, blocks[i].name = blocks[j].name
         PROVE  i = j
    <3>1. kids[i] = kids[j]
      BY <2>8, <2>9, <2>11
    <3> QED
      BY <2>6, <2>7, <2>9, <3>1 DEF IsInjective
  <2>12. IsFile(f, names)
    BY <2>3, <2>5, <2>10, <2>11 DEF IsFile
  <2> QED
    BY <1>3, <2>12
<1> QED
  BY <1>4, <1>5

LEMMA FilesStored ==
    ASSUME NEW fs, AreFiles(fs), NEW n, IsNet(n), NEW g \in {Universe} \cup Galaxy, Printable(n, g),
           NEW before \in [Index -> Index],
           NEW gs, gs = [fs EXCEPT ![ModelOf(g)] = Stored(n, g, before)]
    PROVE  AreFiles(gs)
<1>1. PICK s, m : s = Stored(n, g, before) /\ m = ModelOf(g)
  OBVIOUS
<1>2. gs = [fs EXCEPT ![m] = s]
  BY <1>1
<1>3. DOMAIN fs = 0..1 /\ IsFile(fs[0], Names) /\ IsFile(fs[1], {starName})
  BY DEF AreFiles
<1>4. CASE g = Universe
  <2>1. IsFile(s, Names) /\ m = 0
    BY <1>1, <1>4, StoredFile, Paths
  <2>2. DOMAIN gs = 0..1 /\ gs[0] = s /\ gs[1] = fs[1]
    BY <1>2, <1>3, <2>1
  <2> QED
    BY <1>3, <2>1, <2>2 DEF AreFiles
<1>5. CASE g # Universe
  <2>1. IsFile(s, {starName}) /\ m = 1
    BY <1>1, <1>5, StoredFile, Paths
  <2>2. DOMAIN gs = 0..1 /\ gs[1] = s /\ gs[0] = fs[0]
    BY <1>2, <1>3, <2>1
  <2> QED
    BY <1>3, <2>1, <2>2 DEF AreFiles
<1> QED
  BY <1>4, <1>5

-----------------------------------------------------------------------------
(* The commands that load and verify. *)

LEMMA CauseOf ==
    ASSUME NEW r, NEW b, NEW x \in Apart(r.net),
           IF r.ok THEN x[1] = b /\ StartsFrom(net, r.net, x) ELSE IsPrefix(b, x[1])
    PROVE  x \in Cause(r, b)
<1>1. StartsFrom(net, r.net, x) => StartsApart(r.net, x)
  BY Zenon DEF StartsFrom, StartsApart
<1> QED
  BY <1>1 DEF Cause

(* A parameter outside a galaxy that is loaded, or a star that is made. *)
LEMMA ApartOutside ==
    ASSUME NEW n, NEW m, IsNet(m), NEW b \in Blocks, b # Universe,
           \A c \in Blocks : ~IsPrefix(b, c) => m.param[c] = n.param[c],
           NEW x \in Apart(m), ~IsPrefix(b, x[1])
    PROVE  x \in Apart(n)
<1>1. x \in Bindings(m)
  BY DEF Apart
<1>2. PICK c, g : c = x[1] /\ g = Front(c)
  OBVIOUS
<1>3. c \in Blocks /\ c # Universe /\ g \in Blocks /\ g \in {Universe} \cup Galaxy
  BY <1>1, <1>2, BindingFacts
<1>4. b # c /\ b # g
  BY <1>2, <1>3, PrefixOf
<1>5. ~IsPrefix(b, g)
  <2>1. CASE g = Universe
    BY <1>3, <1>4, <2>1, PrefixOf
  <2>2. CASE g # Universe
    <3>1. Front(g) = Universe
      BY <1>3, <2>2, Paths
    <3> QED
      BY <1>3, <1>4, <3>1, PrefixOf
  <2> QED
    BY <2>1, <2>2
<1>6. m.param[c] = n.param[c] /\ m.param[g] = n.param[g]
  BY <1>2, <1>3, <1>5
<1> QED
  BY <1>2, <1>6, ApartSame

LEMMA LoadLeaves ==
    ASSUME IsNet(net), AreFiles(file), Follows, NEW g \in Present(net), g \in {Universe} \cup Galaxy,
           NEW r, r = LineLoad(file, net, g), NEW before,
           before = {x \in astray : ~IsStrictPrefix(g, x[1])} \cup Cause(r, g)
    PROVE  LeavesWell(r.net, before)
<1>1. CASE g = Universe
  <2>1. r = LineLoad(file, net, Universe)
    BY <1>1
  <2>2. UniverseLoaded(r)
    BY <2>1, UniverseFacts
  <2>3. IsNet(r.net) /\ (r.ok => Apart(r.net) = {})
    BY <2>2 DEF UniverseLoaded
  <2>4. ASSUME NEW x \in Apart(r.net)
        PROVE  x \in before
    <3>1. ~r.ok
      BY <2>3
    <3>2. x[1] \in Blocks /\ x[1] # Universe
      BY DEF Apart, Bindings
    <3>3. IsPrefix(g, x[1])
      BY <1>1, <3>2, Paths, PrefixOf
    <3>4. x \in Cause(r, g)
      BY <3>1, <3>3, CauseOf
    <3> QED
      BY <3>4
  <2> QED
    BY <2>3, <2>4 DEF LeavesWell
<1>2. CASE g # Universe
  <2>1. g \in Galaxy /\ g \in Blocks /\ IsPrefix(g, g) /\ ~IsStrictPrefix(g, g)
    BY <1>2, Paths DEF IsPrefix, IsStrictPrefix
  <2>2. r = LoadGalaxy(file, net, g)
    BY <1>2 DEF LineLoad
  <2>3. GalaxyLoaded(net, r, g)
    BY <2>1, <2>2, GalaxyFacts DEF AreFiles
  <2>4. PICK m : m = r.net
    OBVIOUS
  <2>5. /\ IsNet(m)
        /\ \A c \in Blocks : ~IsPrefix(g, c) => m.param[c] = net.param[c]
        /\ r.ok => \A x \in Apart(m) : IsPrefix(g, x[1]) =>
                       x[1] = g /\ (StaysApart(net, m, x) \/ StartsFrom(net, m, x))
    BY <2>3, <2>4 DEF GalaxyLoaded
  <2>6. ASSUME NEW x \in Apart(m)
        PROVE  x \in before
    <3>1. CASE ~IsPrefix(g, x[1])
      <4>1. x \in Apart(net)
        BY <1>2, <2>1, <2>5, <3>1, ApartOutside
      <4>2. ~IsStrictPrefix(g, x[1])
        BY <3>1 DEF IsStrictPrefix
      <4> QED
        BY <4>1, <4>2 DEF Follows
    <3>2. CASE IsPrefix(g, x[1]) /\ ~r.ok
      <4>1. x \in Cause(r, g)
        BY <2>4, <3>2, CauseOf
      <4> QED
        BY <4>1
    <3>3. CASE IsPrefix(g, x[1]) /\ r.ok
      <4>1. x[1] = g /\ (StaysApart(net, m, x) \/ StartsFrom(net, m, x))
        BY <2>5, <3>3
      <4>2. CASE StaysApart(net, m, x)
        <5>1. x \in astray
          BY <4>2 DEF StaysApart, Follows
        <5> QED
          BY <2>1, <4>1, <5>1
      <4>3. CASE StartsFrom(net, m, x)
        <5>1. x \in Cause(r, g)
          BY <2>4, <3>3, <4>1, <4>3, CauseOf
        <5> QED
          BY <5>1
      <4> QED
        BY <4>1, <4>2, <4>3
    <3> QED
      BY <3>1, <3>2, <3>3
  <2> QED
    BY <2>4, <2>5, <2>6 DEF LeavesWell
<1> QED
  BY <1>1, <1>2

(* The block that is made: what is bound in it has no type at first. *)
LEMMA MadeFacts ==
    ASSUME NEW b \in Blocks, b # Universe, NEW n, CreatedIn(net, n, b), NEW m, IsNet(m), TypedIn(m, b),
           \A c \in Blocks : ~IsPrefix(b, c) => m.param[c] = n.param[c],
           NEW x \in Apart(m), x[1] = b, StaysApart(n, m, x) \/ StartsFrom(n, m, x)
    PROVE  StartsFrom(net, m, x)
<1>1. x \in Bindings(m) /\ x[2] \in Index
  BY DEF Apart, Bindings
<1>2. m.param[b][x[2]].type # "arg" /\ IsBound(m.param[b][x[2]])
  <2>1. IsPrefix(b, b)
    BY DEF IsPrefix
  <2> QED
    BY <1>1, <2>1 DEF TypedIn, Bindings
<1>3. ~StaysApart(n, m, x)
  <2>1. ASSUME m.param[b][x[2]] = n.param[b][x[2]]
        PROVE  FALSE
    <3>1. n.param[b][x[2]] \in LineParams \cup {NULL}
      BY <1>1 DEF CreatedIn
    <3> QED
      BY <1>2, <2>1, <3>1 DEF LineParams, IsBound
  <2> QED
    BY <2>1 DEF StaysApart
<1>4. n.model = net.model /\ n.flag = net.flag
  BY DEF CreatedIn
<1> QED
  BY <1>3, <1>4, Zenon DEF StartsFrom

LEMMA BlockLeaves ==
    ASSUME IsNet(net), AreFiles(file), Follows, NEW b \in Blocks, b # Universe,
           b \notin Present(net), Front(b) \in Present(net), NEW params \in Seq(LineParams),
           NEW n, n = Created(net, b, params),
           NEW r, r = IF b \in Galaxy THEN LineLoad(file, n, b) ELSE KrnVerifyParams(n, b),
           NEW before, before = astray \cup Cause(r, b)
    PROVE  LeavesWell(r.net, before)
<1>1. CreatedIn(net, n, b)
  BY CreatedFacts
<1>2. /\ IsNet(n) /\ b \in Present(n)
      /\ \A c \in Blocks : c # b => n.param[c] = net.param[c]
  BY <1>1 DEF CreatedIn
<1>3. PICK m : m = r.net
  OBVIOUS
<1>4. /\ IsNet(m)
      /\ \A c \in Blocks : ~IsPrefix(b, c) => m.param[c] = n.param[c]
      /\ r.ok => TypedIn(m, b)
      /\ r.ok => \A x \in Apart(m) : IsPrefix(b, x[1]) =>
                     x[1] = b /\ (StaysApart(n, m, x) \/ StartsFrom(n, m, x))
  <2>1. CASE b \in Galaxy
    <3>1. r = LoadGalaxy(file, n, b)
      BY <2>1 DEF LineLoad
    <3>2. GalaxyLoaded(n, r, b)
      BY <1>2, <2>1, <3>1, GalaxyFacts DEF AreFiles
    <3> QED
      BY <1>3, <3>2 DEF GalaxyLoaded
  <2>2. CASE b \notin Galaxy
    <3>1. r = KrnVerifyParams(n, b)
      BY <2>2
    <3>2. b \in Star
      BY <2>2, BlockKinds
    <3>3. \A c \in Blocks : ~IsStrictPrefix(b, c) /\ (IsPrefix(b, c) <=> c = b)
      <4>1. \A c \in Blocks : b # Front(c)
        BY <2>2, BlockKinds
      <4> QED
        BY <4>1, StrictPrefixOf, PrefixOf
    <3>4. TypedBelow(n, b)
      BY <1>2, <3>3, BindingFacts DEF TypedBelow
    <3>5. Frame(n, r.net, b) /\ (r.ok => TypedIn(r.net, b) /\ Settled(n, r.net, b))
      BY <1>2, <3>1, <3>4, VerifyFacts
    <3>6. \A x \in Apart(m) : x[1] \in Blocks
      BY DEF Apart, Bindings
    <3>7. ASSUME r.ok, NEW x \in Apart(m), IsPrefix(b, x[1])
          PROVE  x[1] = b /\ (StaysApart(n, m, x) \/ StartsFrom(n, m, x))
      <4>1. x[1] = b
        BY <3>3, <3>6, <3>7
      <4> QED
        BY <1>3, <3>5, <3>7, <4>1 DEF Settled
    <3>8. /\ IsNet(m)
          /\ \A c \in Blocks : ~IsPrefix(b, c) => m.param[c] = n.param[c]
      BY <1>3, <3>5 DEF Frame
    <3>9. r.ok => TypedIn(m, b)
      BY <1>3, <3>5
    <3> QED
      BY <3>7, <3>8, <3>9
  <2> QED
    BY <2>1, <2>2
<1>5. IsPrefix(b, b)
  BY DEF IsPrefix
<1>6. ASSUME NEW x \in Apart(m)
      PROVE  x \in before
  <2>1. CASE ~IsPrefix(b, x[1])
    <3>1. \A c \in Blocks : ~IsPrefix(b, c) => m.param[c] = net.param[c]
      BY <1>2, <1>4, <1>5
    <3>2. x \in Apart(net)
      BY <1>4, <2>1, <3>1, ApartOutside
    <3> QED
      BY <3>2 DEF Follows
  <2>2. CASE IsPrefix(b, x[1]) /\ ~r.ok
    <3>1. x \in Cause(r, b)
      BY <1>3, <2>2, CauseOf
    <3> QED
      BY <3>1
  <2>3. CASE IsPrefix(b, x[1]) /\ r.ok
    <3>1. x[1] = b /\ (StaysApart(n, m, x) \/ StartsFrom(n, m, x)) /\ TypedIn(m, b)
      BY <1>4, <2>3
    <3>2. StartsFrom(net, m, x)
      BY <1>1, <1>4, <3>1, MadeFacts
    <3>3. x \in Cause(r, b)
      BY <1>3, <2>3, <3>1, <3>2, CauseOf
    <3> QED
      BY <3>3
  <2> QED
    BY <2>1, <2>2, <2>3
<1> QED
  BY <1>3, <1>4, <1>6 DEF LeavesWell

-----------------------------------------------------------------------------
(* The invariant, and the steps that keep it. *)

IInv == TypeOK /\ Follows

LEMMA LeaveKeeps ==
    ASSUME NEW n, NEW before, LeavesWell(n, before), LeaveAfter(n, before)
    PROVE  IsNet(net') /\ astray' \subseteq Bindings(net') /\ Apart(net') \subseteq astray'
<1>1. net' = n /\ astray' = Apart(n) \cap (before \cup Unreached(n))
  BY DEF LeaveAfter
<1>2. IsNet(n) /\ Apart(n) \subseteq before \cup Unreached(n)
  BY DEF LeavesWell
<1>3. Apart(n) \subseteq Bindings(n)
  BY DEF Apart
<1> QED
  BY <1>1, <1>2, <1>3

LEMMA InitKeeps == Init => IInv
<1> SUFFICES ASSUME Init
             PROVE  IInv
  OBVIOUS
<1>1. PICK K, M, F, P : /\ K = [b \in Blocks |-> <<>>]
                        /\ M = [m \in Models |-> IF m = 2 THEN StarModel ELSE None]
                        /\ F = [m \in Models |-> m = 2]
                        /\ P = [b \in Blocks |-> None]
  OBVIOUS
<1>2. net = NetRecord(K, M, F, P)
  BY <1>1 DEF Init, NetRecord
<1>3. None \in Table /\ None \in [Index -> Default \cup {NULL}] /\ \A i \in Index : None[i] = NULL
  BY DEF None, Table
<1>4. StarModel \in [Index -> Default \cup {NULL}]
  <2>1. Set("int", Zero) \in Default
    BY ParamFacts, ParameterAssumption DEF Types
  <2> QED
    BY <1>3, <2>1 DEF StarModel
<1>5. NetTypes(K, M, F, P)
  <2>1. <<>> \in Seq(Blocks \ {Universe})
    OBVIOUS
  <2>2. K \in [Blocks -> Seq(Blocks \ {Universe})]
    BY <1>1, <2>1
  <2>3. M \in [Models -> [Index -> Default \cup {NULL}]]
    BY <1>1, <1>3, <1>4
  <2>4. F \in [Models -> BOOLEAN]
    BY <1>1
  <2>5. P \in [Blocks -> Table]
    BY <1>1, <1>3
  <2> QED
    BY <2>2, <2>3, <2>4, <2>5 DEF NetTypes
<1>6. TreeOK(K, P)
  <2>1. \A i \in Index : ~IsBound(P[Universe][i])
    BY <1>1, <1>3, Paths DEF IsBound
  <2>2. \A b \in Blocks : K[b] = <<>> /\ P[b] = None
    BY <1>1
  <2>3. IsInjective(<<>>) /\ Range(<<>>) = {}
    BY DEF IsInjective, Range
  <2> QED
    BY <2>1, <2>2, <2>3 DEF TreeOK
<1>7. NetFrom(net, K, M, F, P)
  BY <1>2, <1>5, <1>6, NetOf
<1>8. IsNet(net) /\ net.param = P
  BY <1>7 DEF NetFrom
<1>9. Apart(net) = {}
  <2>1. ASSUME NEW x \in Apart(net)
        PROVE  FALSE
    <3>1. x[1] \in Blocks /\ x[2] \in Index /\ IsBound(net.param[x[1]][x[2]])
      BY DEF Apart, Bindings
    <3> QED
      BY <1>1, <1>3, <1>8, <3>1 DEF IsBound
  <2> QED
    BY <2>1
<1>10. AreFiles(file)
  BY ParameterAssumption DEF Init
<1>11. astray = {} /\ commands = 0 /\ 0 \in 0..MaxCommands
  BY ParameterAssumption DEF Init
<1> QED
  BY <1>8, <1>9, <1>10, <1>11 DEF IInv, TypeOK, Follows

(* What the commands have in common. *)
LEMMA CommandCounts ==
    ASSUME commands \in 0..MaxCommands, Command
    PROVE  commands' \in 0..MaxCommands
BY ParameterAssumption DEF Command

LEMMA SelectableOnes ==
    ASSUME NEW g \in Selectable
    PROVE  g \in Present(net) /\ g \in Blocks /\ g \in {Universe} \cup Galaxy
BY Paths DEF Selectable

LEMMA CommandKeeps ==
    ASSUME TypeOK, Command, AreFiles(file)', NEW n, NEW before, LeavesWell(n, before),
           LeaveAfter(n, before)
    PROVE  IInv'
<1>1. IsNet(net') /\ astray' \subseteq Bindings(net') /\ Apart(net') \subseteq astray'
  BY LeaveKeeps
<1>2. commands' \in 0..MaxCommands
  BY CommandCounts DEF TypeOK
<1> QED
  BY <1>1, <1>2 DEF IInv, TypeOK, Follows

LEMMA LoadKeeps ==
    ASSUME IInv, NEW g \in Selectable, L_load(g)
    PROVE  IInv'
<1>1. TypeOK /\ Follows /\ IsNet(net) /\ AreFiles(file)
  BY DEF IInv, TypeOK
<1>2. g \in Present(net) /\ g \in {Universe} \cup Galaxy
  BY SelectableOnes
<1>3. PICK r, before : /\ r = LineLoad(file, net, g)
                       /\ before = {x \in astray : ~IsStrictPrefix(g, x[1])} \cup Cause(r, g)
  OBVIOUS
<1>4. Command /\ LeaveAfter(r.net, before) /\ file' = file
  BY <1>3 DEF L_load
<1>5. LeavesWell(r.net, before)
  BY <1>1, <1>2, <1>3, LoadLeaves
<1> QED
  BY <1>1, <1>4, <1>5, CommandKeeps

LEMMA StoreKeeps ==
    ASSUME IInv, NEW g \in Selectable, L_store(g)
    PROVE  IInv'
<1>1. TypeOK /\ Follows /\ IsNet(net) /\ AreFiles(file) /\ \A x \in Apart(net) : x \in astray
  BY DEF IInv, TypeOK, Follows
<1>2. g \in Present(net) /\ g \in {Universe} \cup Galaxy
  BY SelectableOnes
<1>3. Command /\ Printable(net, g) /\ Leave([net EXCEPT !.flag[ModelOf(g)] = FALSE])
  BY DEF L_store
<1>4. PICK before \in [Index -> Index] : file' = [file EXCEPT ![ModelOf(g)] = Stored(net, g, before)]
  BY DEF L_store
<1>5. AreFiles(file')
  BY <1>1, <1>2, <1>3, <1>4, FilesStored
<1>6. PICK m : m = [net EXCEPT !.flag[ModelOf(g)] = FALSE]
  OBVIOUS
<1>7. LeavesWell(m, astray)
  BY <1>1, <1>2, <1>6, FlagLeaves
<1>8. LeaveAfter(m, astray)
  BY <1>3, <1>6 DEF Leave
<1> QED
  BY <1>1, <1>3, <1>5, <1>7, <1>8, CommandKeeps

(* A command that leaves the files and what was astray. *)
LEMMA EditKeeps ==
    ASSUME IInv, Command, file' = file, NEW n, LeavesWell(n, astray), Leave(n)
    PROVE  IInv'
<1>1. TypeOK /\ AreFiles(file)'
  BY DEF IInv, TypeOK
<1>2. LeaveAfter(n, astray)
  BY DEF Leave
<1> QED
  BY <1>1, <1>2, CommandKeeps

LEMMA ArgsKeep ==
    ASSUME IInv, NEW g \in Selectable,
           \/ \E k \in Index : LineArgNULL(g, k) \/ \E t \in Types, v \in Values : LineArg(g, k, t, v)
           \/ LineArgNone(g)
    PROVE  IInv'
<1>1. IsNet(net) /\ \A x \in Apart(net) : x \in astray
  BY DEF IInv, TypeOK, Follows
<1>2. g \in Present(net) /\ g \in {Universe} \cup Galaxy
  BY SelectableOnes
<1>3. ASSUME NEW k \in Index, LineArgNULL(g, k)
      PROVE  IInv'
  <2>1. PICK m : m = propagate_arg(ArgNet(net, g, k, NULL, NULL), g, k)
    OBVIOUS
  <2>2. LeavesWell(m, astray)
    BY <1>1, <1>2, <2>1, ArgNULLLeaves
  <2>3. Command /\ Leave(m) /\ file' = file
    BY <1>3, <2>1 DEF LineArgNULL, ArgNet
  <2> QED
    BY <2>2, <2>3, EditKeeps
<1>4. ASSUME NEW k \in Index, NEW t \in Types, NEW v \in Values, LineArg(g, k, t, v)
      PROVE  IInv'
  <2>1. PICK pp : pp = Set(t, v)
    OBVIOUS
  <2>2. pp \in Default
    BY <2>1, ParamFacts
  <2>3. PICK m : m = Redefined(g, k, pp)
    OBVIOUS
  <2>4. LeavesWell(m, astray)
    BY <1>1, <1>2, <2>2, <2>3, RedefinedLeaves
  <2>5. Command /\ Leave(m) /\ file' = file
    BY <1>4, <2>1, <2>3 DEF LineArg
  <2> QED
    BY <2>4, <2>5, EditKeeps
<1>5. ASSUME LineArgNone(g)
      PROVE  IInv'
  <2>1. PICK n1 : n1 = ArgsGone(net, g)
    OBVIOUS
  <2>2. PICK m : m = TurnOff(n1, BoundToAny(n1, g))
    OBVIOUS
  <2>3. LeavesWell(m, astray)
    BY <1>1, <1>2, <2>1, <2>2, ArgNoneLeaves
  <2>4. Command /\ Leave(m) /\ file' = file
    BY <1>5, <2>1, <2>2 DEF LineArgNone, ArgsGone, BoundToAny
  <2> QED
    BY <2>3, <2>4, EditKeeps
<1> QED
  BY <1>3, <1>4, <1>5

(* The block that a line makes, and its parameters. *)
LEMMA MadeBlock ==
    ASSUME NEW g \in {Universe} \cup Galaxy, NEW name,
           name \in (IF g = Universe THEN Names ELSE {starName}), NEW b, b = Append(g, name)
    PROVE  b \in Blocks /\ b # Universe /\ Front(b) = g
<1>1. CASE g = Universe
  <2>1. b = <<name>>
    BY <1>1, Pairs DEF Universe
  <2>2. b \in Galaxy
    BY <1>1, <2>1 DEF Galaxy
  <2> QED
    BY <1>1, <2>2, Paths
<1>2. CASE g # Universe
  <2>1. g \in Galaxy /\ b = StarIn(g)
    BY <1>2 DEF StarIn
  <2> QED
    BY <2>1, Paths
<1> QED
  BY <1>1, <1>2

LEMMA MadeParams ==
    ASSUME NEW params \in BoundedSeq(Line, 1)
    PROVE  params \in Seq(LineParams)
<1>1. Line \subseteq LineParams
  <2>1. Default \subseteq LineParams
    BY ParamFacts DEF LineParams
  <2>2. ASSUME NEW k \in Index
        PROVE  [type |-> "arg", val |-> Zero, arg |-> k] \in LineParams
    BY ParameterAssumption DEF LineParams, Param
  <2> QED
    BY <2>1, <2>2 DEF Line
<1>2. params \in Seq(Line)
  <2>1. PICK j \in 0..1 : params \in [1..j -> Line]
    BY DEF BoundedSeq, SeqOf
  <2> QED
    BY <2>1 DEF Seq
<1> QED
  BY <1>1, <1>2

LEMMA BlockKeeps ==
    ASSUME IInv, NEW g \in Selectable, NEW name,
           name \in (IF g = Universe THEN Names ELSE {starName}),
           NEW params \in BoundedSeq(Line, 1), L_block(g, name, params)
    PROVE  IInv'
<1>1. TypeOK /\ Follows /\ IsNet(net) /\ AreFiles(file)
  BY DEF IInv, TypeOK
<1>2. g \in Present(net) /\ g \in Blocks /\ g \in {Universe} \cup Galaxy
  BY SelectableOnes
<1>3. PICK b : b = Append(g, name)
  OBVIOUS
<1>4. b \in Blocks /\ b # Universe /\ Front(b) = g
  BY <1>2, <1>3, MadeBlock
<1>5. params \in Seq(LineParams)
  BY MadeParams
<1>6. PICK n : n = Created(net, b, params)
  OBVIOUS
<1>7. PICK r : r = IF b \in Galaxy THEN LineLoad(file, n, b) ELSE KrnVerifyParams(n, b)
  OBVIOUS
<1>8. PICK before : before = astray \cup Cause(r, b)
  OBVIOUS
<1>9. Command /\ b \notin Present(net) /\ LeaveAfter(r.net, before) /\ file' = file
  BY <1>3, <1>6, <1>7, <1>8 DEF L_block
<1>10. LeavesWell(r.net, before)
  BY <1>1, <1>2, <1>4, <1>5, <1>6, <1>7, <1>8, <1>9, BlockLeaves
<1> QED
  BY <1>1, <1>9, <1>10, CommandKeeps

LEMMA RemoveKeeps ==
    ASSUME IInv, NEW b \in Present(net), b # Universe, L_remove(b)
    PROVE  IInv'
<1>1. IsNet(net) /\ \A x \in Apart(net) : x \in astray
  BY DEF IInv, TypeOK, Follows
<1>2. PICK m : m = RemoveBlock(net, b)
  OBVIOUS
<1>3. LeavesWell(m, astray)
  BY <1>1, <1>2, RemoveLeaves
<1>4. Command /\ Leave(m) /\ file' = file
  BY <1>2 DEF L_remove
<1> QED
  BY <1>3, <1>4, EditKeeps

LEMMA ChpKeeps ==
    ASSUME IInv, LineChp
    PROVE  IInv'
<1>1. IsNet(net) /\ \A x \in Apart(net) : x \in astray
  BY DEF IInv, TypeOK, Follows
<1>2. PICK b \in Present(net) \ {Universe}, i \in Index :
          \/ \E k \in Index : LineChpArg(b, i, k)
          \/ \E v \in Values : LineChpValue(b, i, v)
          \/ LineChpOff(b, i)
          \/ LineChpDefault(b, i)
  BY DEF LineChp
<1>3. b \in Present(net) /\ b # Universe /\ b \in Blocks
  BY DEF Present
<1>4. PICK p : p = net.param[b][i]
  OBVIOUS
<1>5. p \in Param \cup {NULL} /\ net.param[b] \in [Index -> Param \cup {NULL}]
  BY <1>1, <1>3, <1>4, NetFields
<1>6. PICK P : P = net.param
  OBVIOUS
<1>7. ASSUME NEW k \in Index, LineChpArg(b, i, k)
      PROVE  IInv'
  <2>1. Command /\ p # NULL /\ file' = file
        /\ Leave(propagate_arg([net EXCEPT !.param[b][i].arg = k], Front(b), k))
    BY <1>4, <1>7 DEF LineChpArg, Changeable
  <2>2. PICK p1 : p1 = [p EXCEPT !.arg = k]
    OBVIOUS
  <2>3. p1 \in Param \cup {NULL}
    BY <1>5, <2>1, <2>2 DEF Param
  <2>4. PICK n1 : n1 = WithParam(net, b, i, p1)
    OBVIOUS
  <2>5. n1 = [net EXCEPT !.param[b][i].arg = k]
    BY <1>4, <2>2, <2>4 DEF WithParam
  <2>6. SlotSet(net, n1, b, i, p1)
    BY <1>1, <1>3, <2>3, <2>4, OneSet
  <2>7. PICK m : m = propagate_arg(n1, Front(b), k)
    OBVIOUS
  <2>8. LeavesWell(m, astray)
    BY <1>1, <1>3, <1>4, <2>1, <2>2, <2>6, <2>7, BindLeaves
  <2>9. Leave(m)
    BY <2>1, <2>5, <2>7
  <2> QED
    BY <2>1, <2>8, <2>9, EditKeeps
<1>8. ASSUME LineChpOff(b, i)
      PROVE  IInv'
  <2>1. Command /\ p # NULL /\ file' = file /\ Leave([net EXCEPT !.param[b][i].arg = Unbound])
    BY <1>4, <1>8 DEF LineChpOff, Changeable
  <2>2. PICK p1 : p1 = [p EXCEPT !.arg = Unbound]
    OBVIOUS
  <2>3. p1 \in Param \cup {NULL}
    BY <1>5, <2>1, <2>2 DEF Param
  <2>4. PICK m : m = WithParam(net, b, i, p1)
    OBVIOUS
  <2>5. m = [net EXCEPT !.param[b][i].arg = Unbound]
    BY <1>4, <2>2, <2>4 DEF WithParam
  <2>6. SlotSet(net, m, b, i, p1)
    BY <1>1, <1>3, <2>3, <2>4, OneSet
  <2>7. LeavesWell(m, astray)
    BY <1>1, <1>3, <1>4, <2>1, <2>2, <2>6, OffLeaves
  <2>8. Leave(m)
    BY <2>1, <2>5
  <2> QED
    BY <2>1, <2>7, <2>8, EditKeeps
<1>9. ASSUME NEW v \in Values, LineChpValue(b, i, v)
      PROVE  IInv'
  <2>1. PICK w : w = IF p.type = "arg" THEN p.val ELSE v
    OBVIOUS
  <2>2. PICK p1 : p1 = [p EXCEPT !.arg = Unbound, !.val = w]
    OBVIOUS
  <2>3. Command /\ p # NULL /\ file' = file
        /\ Leave(propagate_arg([net EXCEPT !.param[b][i].arg = Unbound,
                                           !.param[b][i].val = IF p.type = "arg" THEN @ ELSE v], b, i))
    BY <1>4, <1>9 DEF LineChpValue, Changeable
  <2>4. p \in Param /\ w \in Values
    BY <1>5, <2>1, <2>3, ParamFacts
  <2>5. p1 = [type |-> p.type, val |-> w, arg |-> Unbound] /\ p1 \in Param
    BY <2>2, <2>4 DEF Param
  <2>6. p1 \in Param \cup {NULL} /\ ~IsBound(p1)
    BY <2>5 DEF IsBound
  <2>7. PICK n1 : n1 = WithParam(net, b, i, p1)
    OBVIOUS
  <2>8. n1 = [net EXCEPT !.param[b][i].arg = Unbound,
                         !.param[b][i].val = IF p.type = "arg" THEN @ ELSE v]
    BY <1>4, <2>1, <2>2, <2>7 DEF WithParam
  <2>9. SlotSet(net, n1, b, i, p1)
    BY <1>1, <1>3, <2>6, <2>7, OneSet
  <2>10. PICK m : m = propagate_arg(n1, b, i)
    OBVIOUS
  <2>11. LeavesWell(m, astray)
    BY <1>1, <1>3, <2>6, <2>9, <2>10, ValueLeaves
  <2>12. Leave(m)
    BY <2>3, <2>8, <2>10
  <2> QED
    BY <2>3, <2>11, <2>12, EditKeeps
<1>10. ASSUME LineChpDefault(b, i)
       PROVE  IInv'
  <2>1. PICK p1 : p1 = KrnParamCheck(NULL, net.model[ModelOf(b)][i])
    OBVIOUS
  <2>2. Command /\ file' = file /\ Leave(propagate_arg([net EXCEPT !.param[b][i] = p1], b, i))
    BY <1>10, <2>1 DEF LineChpDefault
  <2>3. net.model[ModelOf(b)][i] \in Default \cup {NULL}
    BY <1>1, <1>3, NetFields, BlockKinds
  <2>4. p1 \in Default \cup {NULL}
    BY <2>1, <2>3, ParamFacts DEF KrnParamCheck
  <2>5. p1 \in Param \cup {NULL} /\ ~IsBound(p1)
    BY <2>4, ParamFacts DEF IsBound
  <2>6. PICK n1 : n1 = WithParam(net, b, i, p1)
    OBVIOUS
  <2>7. SlotSet(net, n1, b, i, p1)
    BY <1>1, <1>3, <2>5, <2>6, OneSet
  <2>8. PICK m : m = propagate_arg(n1, b, i)
    OBVIOUS
  <2>9. LeavesWell(m, astray)
    BY <1>1, <1>3, <2>5, <2>7, <2>8, ValueLeaves
  <2>10. Leave(m)
    BY <2>2, <2>6, <2>8 DEF WithParam
  <2> QED
    BY <2>2, <2>9, <2>10, EditKeeps
<1> QED
  BY <1>2, <1>7, <1>8, <1>9, <1>10

LEMMA NextKeeps == IInv /\ [Next]_vars => IInv'
<1> SUFFICES ASSUME IInv, [Next]_vars
             PROVE  IInv'
  OBVIOUS
<1>1. ASSUME NEW g \in Selectable, L_load(g)
      PROVE  IInv'
  BY <1>1, LoadKeeps
<1>2. ASSUME NEW g \in Selectable, L_store(g)
      PROVE  IInv'
  BY <1>2, StoreKeeps
<1>3. ASSUME NEW g \in Selectable,
             \/ \E k \in Index : \/ LineArgNULL(g, k)
                                 \/ \E t \in Types, v \in Values : LineArg(g, k, t, v)
             \/ LineArgNone(g)
      PROVE  IInv'
  BY <1>3, ArgsKeep
<1>4. ASSUME NEW params \in BoundedSeq(Line, 1), NEW name \in Names, L_block(Universe, name, params)
      PROVE  IInv'
  <2>1. Universe \in Selectable /\ name \in (IF Universe = Universe THEN Names ELSE {starName})
    BY Paths DEF Selectable, Present
  <2> QED
    BY <1>4, <2>1, BlockKeeps
<1>5. ASSUME NEW params \in BoundedSeq(Line, 1), NEW g \in Selectable \ {Universe},
             L_block(g, starName, params)
      PROVE  IInv'
  <2>1. g \in Selectable /\ starName \in (IF g = Universe THEN Names ELSE {starName})
    OBVIOUS
  <2> QED
    BY <1>5, <2>1, BlockKeeps
<1>6. ASSUME NEW b \in Present(net) \ {Universe}, L_remove(b)
      PROVE  IInv'
  BY <1>6, RemoveKeeps
<1>7. CASE LineChp
  BY <1>7, ChpKeeps
<1>8. CASE UNCHANGED vars
  BY <1>8 DEF vars, IInv, TypeOK, Follows
<1> QED
  BY <1>1, <1>2, <1>3, <1>4, <1>5, <1>6, <1>7, <1>8 DEF Next

LEMMA Invariant == Spec => []IInv
BY InitKeeps, NextKeeps, PTL DEF Spec

(* The net stays a tree of blocks with tables of parameters, and what is   *)
(* stored can be loaded.                                                   *)
THEOREM TypeCorrect == Spec => []TypeOK
<1>1. IInv => TypeOK
  BY DEF IInv
<1> QED
  BY <1>1, Invariant, PTL

(* After any commands, loads and stores a parameter that is bound has the  *)
(* value of its argument, unless it went astray for one of the causes and  *)
(* has not had it since (propagate_arg, KrnVerifyParams, LineLoad).        *)
THEOREM FollowsAlways == Spec => []Follows
<1>1. IInv => Follows
  BY DEF IInv
<1> QED
  BY <1>1, Invariant, PTL

(* What a load of the universe that succeeds puts right: whatever went     *)
(* astray before, every parameter has the value of its argument (LineLoad).*)
LoadPutsRight ==
    L_load(Universe) /\ LineLoad(file, net, Universe).ok => Apart(net') = {} /\ astray' = {}

(* Whatever has been edited, loaded and stored before, `load` in the       *)
(* universe ends with an error or with every bound parameter at the value  *)
(* of its argument, through any of the galaxies (LineLoad,                 *)
(* KrnVerifyParams, propagate_arg).                                        *)
THEOREM UniverseLoadRights == Spec => [][LoadPutsRight]_vars
<1>1. ASSUME IInv, L_load(Universe), LineLoad(file, net, Universe).ok
      PROVE  Apart(net') = {} /\ astray' = {}
  <2>1. PICK r : r = LineLoad(file, net, Universe)
    OBVIOUS
  <2>2. UniverseLoaded(r)
    BY <1>1, <2>1, UniverseFacts DEF IInv, TypeOK
  <2>3. Apart(r.net) = {}
    BY <1>1, <2>1, <2>2 DEF UniverseLoaded
  <2>4. net' = r.net /\ astray' \subseteq Apart(r.net)
    BY <1>1, <2>1 DEF L_load, LeaveAfter
  <2> QED
    BY <2>3, <2>4
<1>2. IInv /\ [Next]_vars => [LoadPutsRight]_vars
  BY <1>1 DEF LoadPutsRight
<1> QED
  BY <1>2, Invariant, PTL DEF Spec

-----------------------------------------------------------------------------
(* The numbers store gives the arguments: the k-th takes the number of     *)
(* arguments in front of it, whatever the gaps in the table.               *)
Before(table, k) == {j \in 0..(k - 1) : table[j] # NULL}

Rank(table, k) == Cardinality(Before(table, k))

LEMMA BeforeFinite ==
    ASSUME NEW t, NEW k \in Index
    PROVE  /\ IsFiniteSet(Before(t, k)) /\ Rank(t, k) \in Index /\ k \in Nat
           /\ Rank(t, k) \in Nat /\ Rank(t, k) <= k
<1>1. k \in 0..(MAX_PARAM - 1) /\ MAX_PARAM \in Nat /\ k \in Nat
  BY Indexes DEF Index
<1>2. Before(t, k) \in SUBSET (0..(k - 1))
  BY DEF Before
<1>3. 0 \in Int /\ k - 1 \in Int
  BY <1>1
<1>4. IsFiniteSet(0..(k - 1)) /\ Cardinality(0..(k - 1)) = IF 0 > k - 1 THEN 0 ELSE (k - 1) - 0 + 1
  BY <1>3, FS_Interval
<1>5. IsFiniteSet(Before(t, k)) /\ Rank(t, k) <= Cardinality(0..(k - 1))
  BY <1>2, <1>4, FS_Subset DEF Rank
<1>6. Rank(t, k) \in Nat
  BY <1>5, FS_CardinalityType DEF Rank
<1>7. Rank(t, k) <= k
  BY <1>1, <1>4, <1>5, <1>6
<1>8. Rank(t, k) \in 0..(MAX_PARAM - 1)
  BY <1>1, <1>6, <1>7
<1> QED
  BY <1>1, <1>5, <1>6, <1>7, <1>8 DEF Index

LEMMA RankGrows ==
    ASSUME NEW t, NEW j \in Index, NEW k \in Index, j < k, t[j] # NULL
    PROVE  Rank(t, j) < Rank(t, k)
<1>1. /\ IsFiniteSet(Before(t, j)) /\ Rank(t, j) \in Nat /\ j \in Nat
      /\ IsFiniteSet(Before(t, k)) /\ Rank(t, k) \in Nat /\ k \in Nat
  BY BeforeFinite
<1>2. j \notin Before(t, j) /\ Before(t, j) \cup {j} \subseteq Before(t, k)
  BY <1>1 DEF Before
<1>3. Cardinality(Before(t, j) \cup {j}) = Rank(t, j) + 1
  BY <1>1, <1>2, FS_AddElement DEF Rank
<1>4. Cardinality(Before(t, j) \cup {j}) <= Rank(t, k)
  <2>1. Before(t, j) \cup {j} \in SUBSET Before(t, k)
    BY <1>2
  <2> QED
    BY <1>1, <2>1, FS_Subset DEF Rank
<1> QED
  BY <1>1, <1>3, <1>4

LEMMA RankTells ==
    ASSUME NEW t, NEW j \in Index, NEW k \in Index, t[j] # NULL, t[k] # NULL, Rank(t, j) = Rank(t, k)
    PROVE  j = k
<1>1. j \in Nat /\ k \in Nat /\ Rank(t, j) \in Nat /\ Rank(t, k) \in Nat
  BY BeforeFinite
<1>2. ~(j < k) /\ ~(k < j)
  BY <1>1, RankGrows
<1> QED
  BY <1>1, <1>2

(* Store writes an argument at its rank. *)
LEMMA ArgAtRank ==
    ASSUME NEW t, NEW k \in Index, t[k] # NULL
    PROVE  PrInfoArgs(t)[Rank(t, k)] = t[k]
<1>1. PICK i : i = Rank(t, k)
  OBVIOUS
<1>2. i \in Index
  BY <1>1, BeforeFinite
<1>3. PICK old : old = {l \in Index : t[l] # NULL /\ Cardinality({j \in 0..(l - 1) : t[j] # NULL}) = i}
  OBVIOUS
<1>4. old = {l \in Index : t[l] # NULL /\ Rank(t, l) = i}
  BY <1>3 DEF Rank, Before
<1>5. old = {k}
  BY <1>1, <1>4, RankTells
<1>6. PrInfoArgs(t)[i] = IF old = {} THEN NULL ELSE t[CHOOSE l \in old : TRUE]
  BY <1>2, <1>3 DEF PrInfoArgs
<1>7. (CHOOSE l \in old : TRUE) = k
  BY <1>5
<1> QED
  BY <1>1, <1>5, <1>6, <1>7

LEMMA RankOf ==
    ASSUME NEW t, NEW i \in Index, PrInfoArgs(t)[i] # NULL
    PROVE  \E k \in Index : t[k] # NULL /\ Rank(t, k) = i
<1>1. PICK old : old = {l \in Index : t[l] # NULL /\ Cardinality({j \in 0..(l - 1) : t[j] # NULL}) = i}
  OBVIOUS
<1>2. PrInfoArgs(t)[i] = IF old = {} THEN NULL ELSE t[CHOOSE l \in old : TRUE]
  BY <1>1 DEF PrInfoArgs
<1>3. old # {}
  BY <1>2
<1>4. old = {l \in Index : t[l] # NULL /\ Rank(t, l) = i}
  BY <1>1 DEF Rank, Before
<1> QED
  BY <1>3, <1>4

LEMMA AssocRank ==
    ASSUME NEW t, NEW k \in Index, t[k] # NULL
    PROVE  Assoc(t, k, Kept) = Rank(t, k)
<1>1. KrnParamCount(t) # 0
  <2>1. PICK S : S = {i \in Index : t[i] # NULL}
    OBVIOUS
  <2>2. IsFiniteSet(Index)
    <3>1. MAX_PARAM - 1 \in Int /\ 0 \in Int
      BY Indexes
    <3> QED
      BY <3>1, FS_Interval DEF Index
  <2>3. IsFiniteSet(S) /\ S # {}
    BY <2>1, <2>2, FS_Subset
  <2>4. Cardinality(S) # 0
    BY <2>3, FS_EmptySet
  <2> QED
    BY <2>1, <2>4 DEF KrnParamCount
<1> QED
  BY <1>1 DEF Assoc, Rank, Before

(* Where there is no gap the numbers stay. *)
LEMMA RankInPlace ==
    ASSUME NEW t, NEW k \in Index, \A j \in Index : j < k => t[j] # NULL
    PROVE  Rank(t, k) = k
<1>1. k \in 0..(MAX_PARAM - 1) /\ MAX_PARAM \in Nat /\ k \in Nat
  BY Indexes DEF Index
<1>2. Before(t, k) = 0..(k - 1)
  <2>1. \A j \in 0..(k - 1) : j \in Index /\ j < k
    BY <1>1 DEF Index
  <2> QED
    BY <2>1 DEF Before
<1>3. 0 \in Int /\ k - 1 \in Int
  BY <1>1
<1>4. Cardinality(0..(k - 1)) = IF 0 > k - 1 THEN 0 ELSE (k - 1) - 0 + 1
  BY <1>3, FS_Interval
<1> QED
  BY <1>1, <1>2, <1>4 DEF Rank

(* A table without gaps ends at its count, and the other way round. *)
LEMMA ContiguousEnds ==
    ASSUME NEW t, Contiguous(t), NEW i \in Index
    PROVE  i < KrnParamCount(t) <=> t[i] # NULL
<1>1. PICK S, c : S = {j \in Index : t[j] # NULL} /\ c = KrnParamCount(t)
  OBVIOUS
<1>2. c \in 0..MAX_PARAM /\ MAX_PARAM \in Nat /\ c = Cardinality(S) /\ c \in Nat /\ i \in Nat
  BY <1>1, CountBound, Indexes DEF KrnParamCount
<1>3. \A j \in 0..(c - 1) : j \in Index /\ j \in S
  BY <1>1, <1>2 DEF Contiguous, Index
<1>4. IsFiniteSet(S)
  <2>1. MAX_PARAM - 1 \in Int /\ 0 \in Int
    BY Indexes
  <2>2. IsFiniteSet(Index)
    BY <2>1, FS_Interval DEF Index
  <2> QED
    BY <1>1, <2>2, FS_Subset
<1>5. ASSUME t[i] # NULL, ~(i < c)
      PROVE  FALSE
  <2>1. 0 \in Int /\ c - 1 \in Int
    BY <1>2
  <2>2. IsFiniteSet(0..(c - 1)) /\ Cardinality(0..(c - 1)) = IF 0 > c - 1 THEN 0 ELSE (c - 1) - 0 + 1
    BY <2>1, FS_Interval
  <2>3. Cardinality(0..(c - 1)) = c
    BY <1>2, <2>2
  <2>4. i \notin 0..(c - 1) /\ (0..(c - 1)) \cup {i} \in SUBSET S
    BY <1>1, <1>2, <1>3, <1>5
  <2>5. Cardinality((0..(c - 1)) \cup {i}) = c + 1
    BY <2>2, <2>3, <2>4, FS_AddElement
  <2>6. Cardinality((0..(c - 1)) \cup {i}) <= c
    BY <1>2, <1>4, <2>4, FS_Subset
  <2> QED
    BY <1>2, <2>5, <2>6
<1>6. ASSUME i < c
      PROVE  t[i] # NULL
  <2>1. i \in 0..(c - 1)
    BY <1>2, <1>6
  <2> QED
    BY <1>1, <1>3, <2>1
<1> QED
  BY <1>1, <1>5, <1>6

LEMMA NoGap ==
    ASSUME NEW t, \A i, j \in Index : i < j /\ t[j] # NULL => t[i] # NULL
    PROVE  Contiguous(t)
<1>1. PICK S, c : S = {j \in Index : t[j] # NULL} /\ c = KrnParamCount(t)
  OBVIOUS
<1>2. c \in 0..MAX_PARAM /\ MAX_PARAM \in Nat /\ c = Cardinality(S) /\ c \in Nat
  BY <1>1, CountBound, Indexes DEF KrnParamCount
<1>3. ASSUME NEW i \in 0..(c - 1), t[i] = NULL
      PROVE  FALSE
  <2>1. i \in Index /\ i \in Nat /\ i < c
    BY <1>2 DEF Index
  <2>2. \A j \in S : j \in Nat /\ j < i
    BY <1>1, <1>3, <2>1, Indexes
  <2>3. S \in SUBSET (0..(i - 1))
    BY <2>1, <2>2
  <2>4. 0 \in Int /\ i - 1 \in Int
    BY <2>1
  <2>5. IsFiniteSet(0..(i - 1)) /\ Cardinality(0..(i - 1)) = IF 0 > i - 1 THEN 0 ELSE (i - 1) - 0 + 1
    BY <2>4, FS_Interval
  <2>6. c <= Cardinality(0..(i - 1))
    BY <1>2, <2>3, <2>5, FS_Subset
  <2> QED
    BY <1>2, <2>1, <2>5, <2>6
<1> QED
  BY <1>1, <1>3 DEF Contiguous

(* What store writes has no gaps. *)
LEMMA StoredContiguous ==
    ASSUME NEW t
    PROVE  Contiguous(PrInfoArgs(t))
<1> DEFINE u == PrInfoArgs(t)
<1>1. ASSUME NEW j \in Index, NEW i \in Index, i < j, u[j] # NULL
      PROVE  u[i] # NULL
  <2>1. PICK k \in Index : t[k] # NULL /\ Rank(t, k) = j
    BY <1>1, RankOf
  <2>2. PICK S : S = {x \in 0..k : x \in Index /\ i < Rank(t, x)}
    OBVIOUS
  <2>3. k \in Nat /\ i \in Nat /\ j \in Nat /\ k \in S
    BY <1>1, <2>1, <2>2, BeforeFinite
  <2>4. \E x \in S : \A y \in S : x <= y
    BY <2>2, <2>3, LeastNumber
  <2>5. PICK x \in S : \A y \in S : x <= y
    BY <2>4
  <2>6. x \in Nat /\ x \in Index /\ x <= k /\ i < Rank(t, x) /\ Rank(t, x) \in Nat /\ Rank(t, x) <= x
    BY <2>2, <2>3, BeforeFinite
  <2>7. PICK y \in Nat : y = x - 1
    BY <2>3, <2>6
  <2>8. y \in Index
    BY <2>6, <2>7, Indexes DEF Index
  <2>9. ~(i < Rank(t, y)) /\ Rank(t, y) \in Nat /\ IsFiniteSet(Before(t, y))
    BY <2>2, <2>3, <2>5, <2>6, <2>7, <2>8, BeforeFinite
  <2>10. Before(t, x) = IF t[y] = NULL THEN Before(t, y) ELSE Before(t, y) \cup {y}
    BY <2>6, <2>7 DEF Before
  <2>11. y \notin Before(t, y)
    BY <2>7 DEF Before
  <2>12. t[y] # NULL /\ Rank(t, x) = Rank(t, y) + 1
    <3>1. t[y] # NULL
      BY <2>6, <2>9, <2>10 DEF Rank
    <3> QED
      BY <2>9, <2>10, <2>11, <3>1, FS_AddElement DEF Rank
  <2>13. Rank(t, y) = i
    BY <2>3, <2>6, <2>9, <2>12
  <2> QED
    BY <2>8, <2>12, <2>13, ArgAtRank
<1> QED
  BY <1>1, NoGap

-----------------------------------------------------------------------------
(* KrnVerifyParams in a net where every parameter is of its model, and     *)
(* every argument of the parameter's type: it ends well, and changes only  *)
(* the values of parameters that are bound and those it fills in.          *)

(* Alike but for the value of a parameter that is bound. *)
Alike(p, q) ==
    /\ p = NULL <=> q = NULL
    /\ p # NULL => /\ q.type = p.type /\ q.arg = p.arg
                   /\ ~IsBound(p) => q.val = p.val

(* What becomes of p in a block that is verified. *)
Filled(p, q, own) ==
    /\ q # NULL /\ q.type = own.type
    /\ p = NULL => ~IsBound(q)
    /\ p # NULL => q.arg = p.arg /\ (~IsBound(p) => q.val = p.val)

Fits(n, b, i) ==
    LET p == n.param[b][i]
        own == n.model[ModelOf(b)][i]
        q == n.model[ModelOf(b) - 1][p.arg]
    IN /\ own # NULL
       /\ IsBound(p) => q # NULL /\ q.type = own.type
       /\ p # NULL /\ ~IsBound(p) => p.type = own.type

LEMMA PropagateAlike ==
    ASSUME NEW n, IsNet(n), NEW g \in Blocks, NEW k \in Index, n.param[g][k] # NULL,
           NEW m, m = propagate_arg(n, g, k), NEW b \in Blocks, NEW i \in Index
    PROVE  /\ Alike(n.param[b][i], m.param[b][i])
           /\ ~IsStrictPrefix(g, b) => m.param[b][i] = n.param[b][i]
<1>1. Copied(n, m, g, k) /\ Propagated(n, m, g, k)
  BY PropagateFacts
<1>2. /\ m.param[b][i] = NULL <=> n.param[b][i] = NULL
      /\ m.param[b][i] # NULL => m.param[b][i].type = n.param[b][i].type
      /\ ~IsStrictPrefix(g, b) => m.param[b][i] = n.param[b][i]
  BY <1>1 DEF Propagated
<1>3. /\ <<b, i>> \notin Hearers(n, g, k) => m.param[b][i] = n.param[b][i]
      /\ m.param[b][i] # NULL => m.param[b][i].arg = n.param[b][i].arg
  BY <1>1 DEF Copied
<1>4. <<b, i>> \in Hearers(n, g, k) => IsBound(n.param[b][i])
  BY HearersBound DEF Bindings
<1> QED
  BY <1>2, <1>3, <1>4 DEF Alike

LEMMA ResultParts == \A ok, n : Result(ok, n).ok = ok /\ Result(ok, n).net = n
BY DEF Result

(* What the turn of parameter i makes of n. *)
FitStep(n, m, b, i) ==
    /\ IsNet(m) /\ SameShape(n, m)
    /\ \A c \in Blocks, j \in Index : c # b => Alike(n.param[c][j], m.param[c][j])
    /\ \A c \in Blocks, j \in Index : ~IsPrefix(b, c) => m.param[c][j] = n.param[c][j]
    /\ \A j \in Index : j # i => m.param[b][j] = n.param[b][j]
    /\ Filled(n.param[b][i], m.param[b][i], n.model[ModelOf(b)][i])

LEMMA StepFits ==
    ASSUME NEW n, IsNet(n), NEW b \in Present(n), NEW i \in Index, Fits(n, b, i),
           NEW s, s = Verified(Result(TRUE, n), b, i, FALSE)
    PROVE  s.ok = TRUE /\ FitStep(n, s.net, b, i)
<1>1. PICK p, own, q : p = n.param[b][i] /\ own = n.model[ModelOf(b)][i]
                       /\ q = n.model[ModelOf(b) - 1][p.arg]
  OBVIOUS
<1>2. b \in Blocks /\ ModelOf(b) \in Models
  BY BlockKinds DEF Present
<1>3. p \in Param \cup {NULL} /\ own \in Default \cup {NULL}
  BY <1>1, <1>2, NetFields
<1>4. /\ own \in Default /\ own \in Param /\ own.type \in Types
      /\ IsBound(p) => q # NULL /\ q.type = own.type
      /\ p # NULL /\ ~IsBound(p) => p.type = own.type
  BY <1>1, <1>3, ParamFacts DEF Fits
<1>5. Result(TRUE, n).ok = TRUE /\ Result(TRUE, n).net = n
  BY DEF Result
<1>6. PICK K, M, F, P : n = [kids |-> K, model |-> M, flag |-> F, param |-> P]
  BY NetParts
<1>7. K = n.kids /\ M = n.model /\ F = n.flag /\ P = n.param
  BY <1>6
<1>8. \E n1, v : /\ n1 = WithSlot(n, n.model, n.flag, b, i, v)
                 /\ v \in Param \cup {NULL} /\ MayHave(b, v) /\ Filled(p, v, own)
                 /\ s = Result(TRUE, propagate_arg(n1, b, i))
  <2>1. CASE ~IsBound(p)
    <3>1. PICK v : v = KrnParamCheck(p, own)
      OBVIOUS
    <3>2. v \in Param /\ ~IsBound(v) /\ Filled(p, v, own)
      BY <1>3, <1>4, <2>1, <3>1, ParamFacts DEF KrnParamCheck, Filled, IsBound, Set
    <3>3. PICK n1 : n1 = [n EXCEPT !.param[b][i] = KrnParamCheck(p, own)]
      BY Zenon
    <3>4. s = Result(TRUE, propagate_arg(n1, b, i))
      BY <1>1, <1>5, <2>1, <3>3, Zenon DEF Verified
    <3>5. n1 = WithSlot(n, n.model, n.flag, b, i, v)
      BY <1>6, <1>7, <3>1, <3>3 DEF WithSlot
    <3> QED
      BY <3>2, <3>4, <3>5 DEF MayHave
  <2>2. CASE IsBound(p)
    <3>1. p \in Param /\ p # NULL /\ p.arg \in Index /\ b # Universe
      BY <1>1, <1>3, <2>2, ParamFacts, ParamType DEF IsBound
    <3>2. ModelOf(b) - 1 \in Models
      BY <1>2, <3>1, BlockKinds, Paths DEF Models
    <3>3. q \in Default /\ q.type = own.type /\ q # NULL
      BY <1>1, <1>4, <2>2, <3>1, <3>2, NetFields
    <3>4. PICK w : w = [KrnParamCheck(p, q) EXCEPT !.arg = p.arg]
      OBVIOUS
    <3>5. w \in Param /\ w.type = own.type /\ w.arg = p.arg
      <4>1. KrnParamCheck(p, q) \in Param /\ KrnParamCheck(p, q).type = q.type
        BY <3>1, <3>3, ParamFacts, CheckedParam
      <4>2. PICK x \in Param : x = KrnParamCheck(p, q)
        BY <4>1
      <4>3. w = [x EXCEPT !.arg = p.arg]
        BY <3>4, <4>2
      <4> QED
        BY <3>1, <3>3, <4>1, <4>2, <4>3 DEF Param
    <3>6. KrnParamCheck(w, own) = w
      BY <1>4, <3>5, ParamFacts, CheckedParam
    <3>7. PICK n0 : n0 = [n EXCEPT !.model[ModelOf(b) - 1][p.arg] = q]
      OBVIOUS
    <3>8. n0 = n
      <4>1. [M EXCEPT ![ModelOf(b) - 1][p.arg] = q] = M
        BY <1>1, <1>7, <3>1, <3>2, NetParts
      <4> QED
        BY <1>6, <3>7, <4>1
    <3>9. PICK n1 : n1 = [n EXCEPT !.param[b][i] = KrnParamCheck(w, own)]
      OBVIOUS
    <3>10. s = Result(TRUE, propagate_arg([n0 EXCEPT !.param[b][i] = KrnParamCheck(w, own)], b, i))
      BY <1>1, <1>5, <2>2, <3>3, <3>4, <3>7, Zenon DEF Verified
    <3>11. n1 = WithSlot(n, n.model, n.flag, b, i, w)
      BY <1>6, <1>7, <3>6, <3>9 DEF WithSlot
    <3>12. Filled(p, w, own)
      BY <2>2, <3>1, <3>5, ParamFacts DEF Filled
    <3> QED
      BY <3>1, <3>5, <3>8, <3>9, <3>10, <3>11, <3>12 DEF MayHave
  <2> QED
    BY <2>1, <2>2
<1>9. PICK n1, v : /\ n1 = WithSlot(n, n.model, n.flag, b, i, v)
                   /\ v \in Param \cup {NULL} /\ MayHave(b, v) /\ Filled(p, v, own)
                   /\ s = Result(TRUE, propagate_arg(n1, b, i))
  BY <1>8
<1>10. n.model \in [Models -> [Index -> Default \cup {NULL}]] /\ n.flag \in [Models -> BOOLEAN]
  BY NetParts
<1>11. SlotIn(n, n1, n.model, n.flag, b, i, v)
  BY <1>9, <1>10, SlotIs
<1>12. /\ n1.kids = n.kids /\ n1.model = n.model /\ n1.flag = n.flag
       /\ n1.param[b][i] = v /\ OneSlot(n, n1, b, i) /\ IsNet(n1)
  BY <1>11 DEF SlotIn
<1>13. PICK m : m = propagate_arg(n1, b, i)
  OBVIOUS
<1>14. s.ok = TRUE /\ s.net = m
  <2>1. s = Result(TRUE, m)
    BY <1>9, <1>13
  <2> QED
    BY <2>1, ResultParts
<1>15. IsNet(m) /\ SameShape(n1, m)
  BY <1>2, <1>12, <1>13, PropagateFacts
<1>16. v # NULL
  BY <1>9 DEF Filled
<1>17. \A c \in Blocks, j \in Index :
          /\ Alike(n1.param[c][j], m.param[c][j])
          /\ ~IsStrictPrefix(b, c) => m.param[c][j] = n1.param[c][j]
  BY <1>2, <1>12, <1>13, <1>16, PropagateAlike
<1>18. IsPrefix(b, b) /\ ~IsStrictPrefix(b, b) /\ \A c : IsStrictPrefix(b, c) => IsPrefix(b, c)
  BY DEF IsPrefix, IsStrictPrefix
<1>19. FitStep(n, m, b, i)
  <2>1. \A c \in Blocks, j \in Index : c # b => n1.param[c][j] = n.param[c][j]
    BY <1>12 DEF OneSlot
  <2>2. \A j \in Index : j # i => n1.param[b][j] = n.param[b][j]
    BY <1>2, <1>12 DEF OneSlot
  <2>3. \A j \in Index : m.param[b][j] = n1.param[b][j]
    BY <1>2, <1>17, <1>18
  <2>4. SameShape(n, m)
    BY <1>12, <1>15 DEF SameShape
  <2>5. \A c \in Blocks, j \in Index : c # b => Alike(n.param[c][j], m.param[c][j])
    <3>1. ASSUME NEW c \in Blocks, NEW j \in Index, c # b
          PROVE  Alike(n.param[c][j], m.param[c][j])
      <4>1. n1.param[c][j] = n.param[c][j] /\ Alike(n1.param[c][j], m.param[c][j])
        BY <1>17, <2>1, <3>1
      <4> QED
        BY <4>1
    <3> QED
      BY <3>1
  <2>6. \A c \in Blocks, j \in Index : ~IsPrefix(b, c) => m.param[c][j] = n.param[c][j]
    BY <1>17, <1>18, <2>1
  <2>7. Filled(n.param[b][i], m.param[b][i], n.model[ModelOf(b)][i])
    <3>1. m.param[b][i] = v
      BY <1>12, <2>3
    <3> QED
      BY <1>1, <1>9, <3>1
  <2> QED
    BY <1>15, <2>2, <2>3, <2>4, <2>5, <2>6, <2>7 DEF FitStep
<1> QED
  BY <1>14, <1>19

-----------------------------------------------------------------------------
(* All turns. *)

AllFit(n, b) ==
    /\ Contiguous(n.model[ModelOf(b)])
    /\ \A i \in Index : i < Steps(n, b) => Fits(n, b, i)

(* After i turns, from n0. *)
Fitting(n0, n, b, i) ==
    /\ IsNet(n) /\ n.kids = n0.kids /\ n.model = n0.model
    /\ n.flag = [n0.flag EXCEPT ![ModelOf(b)] = TRUE]
    /\ \A c \in Blocks, j \in Index : c # b => Alike(n0.param[c][j], n.param[c][j])
    /\ \A c \in Blocks, j \in Index : ~IsPrefix(b, c) => n.param[c][j] = n0.param[c][j]
    /\ \A j \in Index : j < i => Filled(n0.param[b][j], n.param[b][j], n0.model[ModelOf(b)][j])
    /\ \A j \in Index : i <= j /\ j < Steps(n0, b) => n.param[b][j] = n0.param[b][j]
    /\ \A j \in Index : Steps(n0, b) <= j => n.param[b][j] = NULL

LEMMA AlikeTrans ==
    ASSUME NEW p, NEW q, NEW r, Alike(p, q), Alike(q, r)
    PROVE  Alike(p, r)
BY DEF Alike, IsBound

LEMMA FittingStart ==
    ASSUME NEW n, IsNet(n), NEW b \in Present(n), AllFit(n, b)
    PROVE  Fitting(n, Trimmed(n, b), b, 0)
<1>1. PICK m : m = Trimmed(n, b)
  OBVIOUS
<1>2. TrimmedIn(n, m, b)
  BY <1>1, TrimmedIs
<1>3. PICK k, t : k = Steps(n, b) /\ t = n.model[ModelOf(b)]
  OBVIOUS
<1>4. b \in Blocks /\ ModelOf(b) \in Models
  BY BlockKinds DEF Present
<1>5. n.model \in [Models -> [Index -> Default \cup {NULL}]]
  BY NetParts
<1>6. Cut(t, k) = t
  <2>1. \A i \in Index : i < k <=> t[i] # NULL
    BY <1>3, ContiguousEnds DEF AllFit, Steps
  <2>2. t = [i \in Index |-> t[i]]
    BY <1>3, <1>4, <1>5
  <2>3. \A i \in Index : (IF i < k THEN t[i] ELSE NULL) = t[i]
    BY <2>1
  <2> QED
    BY <2>2, <2>3 DEF Cut
<1>7. m.model = n.model
  BY <1>2, <1>3, <1>5, <1>6 DEF TrimmedIn
<1>8. k \in Nat /\ \A j \in Index : ~(j < 0) /\ j \in Nat
  BY <1>3, CountBound, Indexes DEF Steps
<1>9. IsPrefix(b, b)
  BY DEF IsPrefix
<1>10. \A c \in Blocks : c # b => m.param[c] = n.param[c]
  BY <1>2 DEF TrimmedIn
<1>11. \A c \in Blocks, j \in Index : c # b => Alike(n.param[c][j], m.param[c][j])
  BY <1>10 DEF Alike
<1>12. \A c \in Blocks, j \in Index : ~IsPrefix(b, c) => m.param[c][j] = n.param[c][j]
  BY <1>9, <1>10
<1>13. /\ IsNet(m) /\ m.kids = n.kids /\ m.flag = [n.flag EXCEPT ![ModelOf(b)] = TRUE]
       /\ \A j \in Index : m.param[b][j] = IF j < k THEN n.param[b][j] ELSE NULL
  BY <1>2, <1>3 DEF TrimmedIn
<1>14. \A j \in Index : k <= j => m.param[b][j] = NULL
  BY <1>8, <1>13
<1> QED
  BY <1>1, <1>3, <1>7, <1>8, <1>11, <1>12, <1>13, <1>14 DEF Fitting

LEMMA FittingStep ==
    ASSUME NEW n0, IsNet(n0), NEW b \in Present(n0), AllFit(n0, b), NEW i \in Index, i < Steps(n0, b),
           NEW n, Fitting(n0, n, b, i), NEW s, s = Verified(Result(TRUE, n), b, i, FALSE)
    PROVE  s.ok = TRUE /\ Fitting(n0, s.net, b, i + 1)
<1>1. PICK k : k = Steps(n0, b)
  OBVIOUS
<1>2. k \in Nat /\ i \in Nat /\ i < k /\ \A j \in Index : j \in Nat
  BY <1>1, CountBound, Indexes DEF Steps
<1>3. b \in Blocks /\ ModelOf(b) \in Models
  BY BlockKinds DEF Present
<1>4. /\ IsNet(n) /\ n.kids = n0.kids /\ n.model = n0.model
      /\ n.flag = [n0.flag EXCEPT ![ModelOf(b)] = TRUE]
      /\ \A c \in Blocks, j \in Index : c # b => Alike(n0.param[c][j], n.param[c][j])
      /\ \A c \in Blocks, j \in Index : ~IsPrefix(b, c) => n.param[c][j] = n0.param[c][j]
      /\ \A j \in Index : j < i => Filled(n0.param[b][j], n.param[b][j], n0.model[ModelOf(b)][j])
      /\ \A j \in Index : i <= j /\ j < k => n.param[b][j] = n0.param[b][j]
      /\ \A j \in Index : k <= j => n.param[b][j] = NULL
  BY <1>1 DEF Fitting
<1>5. b \in Present(n)
  BY <1>4 DEF Present
<1>6. n.param[b][i] = n0.param[b][i]
  BY <1>2, <1>4
<1>7. Fits(n, b, i)
  BY <1>1, <1>4, <1>6 DEF AllFit, Fits
<1>8. s.ok = TRUE /\ FitStep(n, s.net, b, i)
  BY <1>4, <1>5, <1>7, StepFits
<1>9. PICK m : m = s.net
  OBVIOUS
<1>10. /\ IsNet(m) /\ SameShape(n, m)
       /\ \A c \in Blocks, j \in Index : c # b => Alike(n.param[c][j], m.param[c][j])
       /\ \A c \in Blocks, j \in Index : ~IsPrefix(b, c) => m.param[c][j] = n.param[c][j]
       /\ \A j \in Index : j # i => m.param[b][j] = n.param[b][j]
       /\ Filled(n.param[b][i], m.param[b][i], n.model[ModelOf(b)][i])
  BY <1>8, <1>9 DEF FitStep
<1>11. m.kids = n0.kids /\ m.model = n0.model /\ m.flag = [n0.flag EXCEPT ![ModelOf(b)] = TRUE]
  BY <1>4, <1>10 DEF SameShape
<1>12. \A c \in Blocks, j \in Index : c # b => Alike(n0.param[c][j], m.param[c][j])
  <2>1. ASSUME NEW c \in Blocks, NEW j \in Index, c # b
        PROVE  Alike(n0.param[c][j], m.param[c][j])
    <3>1. Alike(n0.param[c][j], n.param[c][j]) /\ Alike(n.param[c][j], m.param[c][j])
      BY <1>4, <1>10, <2>1
    <3> QED
      BY <3>1, AlikeTrans
  <2> QED
    BY <2>1
<1>13. \A c \in Blocks, j \in Index : ~IsPrefix(b, c) => m.param[c][j] = n0.param[c][j]
  BY <1>4, <1>10
<1>14. ASSUME NEW j \in Index, j < i + 1
       PROVE  Filled(n0.param[b][j], m.param[b][j], n0.model[ModelOf(b)][j])
  <2>1. CASE j = i
    BY <1>4, <1>6, <1>10, <2>1
  <2>2. CASE j # i
    <3>1. j < i
      BY <1>2, <1>14, <2>2
    <3>2. m.param[b][j] = n.param[b][j]
      BY <1>10, <2>2
    <3> QED
      BY <1>4, <3>1, <3>2
  <2> QED
    BY <2>1, <2>2
<1>15. \A j \in Index : i + 1 <= j /\ j < k => m.param[b][j] = n0.param[b][j]
  <2>1. \A j \in Index : i + 1 <= j => j # i /\ i <= j
    BY <1>2
  <2> QED
    BY <1>4, <1>10, <2>1
<1>16. \A j \in Index : k <= j => m.param[b][j] = NULL
  <2>1. \A j \in Index : k <= j => j # i
    BY <1>2
  <2> QED
    BY <1>4, <1>10, <2>1
<1>17. Fitting(n0, m, b, i + 1)
  BY <1>1, <1>10, <1>11, <1>12, <1>13, <1>14, <1>15, <1>16, Zenon DEF Fitting
<1> QED
  BY <1>8, <1>9, <1>17

LEMMA FittingLoop ==
    ASSUME NEW n, IsNet(n), NEW b \in Present(n), AllFit(n, b), ~Creates(n, b),
           NEW N, N = Steps(n, b), NEW h, VerifyIs(h, n, b, N)
    PROVE  \A i \in 0..N : h[i].ok = TRUE /\ Fitting(n, h[i].net, b, i)
<1> DEFINE T == {i \in 0..N : h[i].ok = TRUE /\ Fitting(n, h[i].net, b, i)}
<1>1. N \in 0..MAX_PARAM /\ N \in Nat /\ MAX_PARAM \in Nat
  BY CountBound, Indexes DEF Steps
<1>2. \A i \in 0..N : h[i] = IF i = 0 THEN Result(TRUE, Trimmed(n, b))
                             ELSE Verified(h[i - 1], b, i - 1, Creates(n, b))
  BY DEF VerifyIs
<1>3. 0 \in T
  <2>1. 0 \in 0..N
    BY <1>1
  <2>2. h[0] = Result(TRUE, Trimmed(n, b))
    BY <1>2, <2>1
  <2>3. h[0].ok = TRUE /\ h[0].net = Trimmed(n, b)
    BY <2>2 DEF Result
  <2> QED
    BY <2>1, <2>3, FittingStart
<1>4. ASSUME NEW i \in 0..(N - 1), i \in T
      PROVE  i + 1 \in T
  <2>1. i \in 0..N /\ i + 1 \in 0..N /\ i + 1 # 0 /\ (i + 1) - 1 = i /\ i \in Index /\ i < N
    BY <1>1 DEF Index
  <2>2. h[i + 1] = Verified(h[i], b, i, Creates(n, b))
    BY <1>2, <2>1, Zenon
  <2>3. PICK r, s, m : r = h[i] /\ s = h[i + 1] /\ m = r.net
    OBVIOUS
  <2>4. r.ok = TRUE /\ Fitting(n, m, b, i)
    BY <1>4, <2>3
  <2>5. Creates(n, b) = FALSE
    BY DEF Creates
  <2>6. s = Verified(Result(TRUE, m), b, i, FALSE)
    BY <2>2, <2>3, <2>4, <2>5, Zenon DEF Verified, Result
  <2>7. s.ok = TRUE /\ Fitting(n, s.net, b, i + 1)
    BY <2>1, <2>4, <2>6, FittingStep
  <2> QED
    BY <2>1, <2>3, <2>7
<1> HIDE DEF T
<1>5. 0..N \subseteq T
  BY <1>1, <1>3, <1>4, AllUpTo
<1> QED
  BY <1>5 DEF T

LEMMA VerifyFits ==
    ASSUME NEW n, IsNet(n), NEW b \in Present(n), AllFit(n, b), ~Creates(n, b),
           NEW r, r = KrnVerifyParams(n, b)
    PROVE  r.ok = TRUE /\ Fitting(n, r.net, b, Steps(n, b))
<1>1. PICK N : N = Steps(n, b)
  OBVIOUS
<1>2. N \in Nat /\ N \in 0..N
  BY <1>1, CountBound DEF Steps
<1>3. PICK h : VerifyIs(h, n, b, N) /\ r = h[N]
  BY <1>1, VerifyRun
<1>4. \A i \in 0..N : h[i].ok = TRUE /\ Fitting(n, h[i].net, b, i)
  BY <1>1, <1>3, FittingLoop
<1> QED
  BY <1>1, <1>2, <1>3, <1>4

-----------------------------------------------------------------------------
(* What load makes of what store has written. *)

(* A star in the tree has its parameter. *)
StarsHave(n) ==
    /\ n.model[2] = StarModel
    /\ \A g \in Galaxy : StarIn(g) \in Range(n.kids[g]) => n.param[StarIn(g)][0] # NULL

Storable(n) ==
    /\ IsNet(n) /\ Consistent(n) /\ StarsHave(n)
    /\ \A g \in Present(n) : g \in {Universe} \cup Galaxy => Printable(n, g)

(* A parameter as store writes it. *)
Renumbered(p, args) ==
    IF IsBound(p) THEN [type |-> "arg", val |-> Zero, arg |-> Assoc(args, p.arg, Kept)] ELSE p

(* What is left of it after the load. *)
Carried(p, q, args) ==
    p # NULL => /\ q # NULL /\ q.type = p.type
                /\ IsBound(p) => q.arg = Assoc(args, p.arg, Kept)
                /\ ~IsBound(p) => ~IsBound(q) /\ q.val = p.val

GalaxyAs(n, m, g) ==
    /\ m.kids[g] = n.kids[g]
    /\ n.kids[g] # <<>> =>
          \A i \in Index : /\ Alike(n.param[StarIn(g)][i], m.param[StarIn(g)][i])
                           /\ Carried(n.param[g][i], m.param[g][i], n.model[0])

LEMMA KeptNumbers == Kept \in [Index -> Index]
BY DEF Kept

LEMMA GalaxyPaths ==
    ASSUME NEW g \in Galaxy
    PROVE  /\ g \in Blocks /\ g # Universe /\ Front(g) = Universe /\ ModelOf(g) = 1
           /\ StarIn(g) \in Blocks /\ StarIn(g) # Universe /\ StarIn(g) # g /\ StarIn(g) \in Star
           /\ Front(StarIn(g)) = g /\ ModelOf(StarIn(g)) = 2
           /\ \A c \in Blocks : IsPrefix(g, c) <=> c = g \/ c = StarIn(g)
           /\ \A c \in Blocks : IsPrefix(StarIn(g), c) <=> c = StarIn(g)
           /\ \A c \in Blocks : c # Universe /\ Front(c) = g => c = StarIn(g)
<1>1. /\ g \in Blocks /\ g # Universe /\ Front(g) = Universe /\ ModelOf(g) = 1
      /\ StarIn(g) \in Blocks /\ StarIn(g) # Universe /\ StarIn(g) # g /\ StarIn(g) \in Star
      /\ Front(StarIn(g)) = g /\ ModelOf(StarIn(g)) = 2
  BY Paths DEF Star
<1>2. \A c \in Blocks : c # Universe /\ Front(c) = g => c = StarIn(g)
  BY <1>1, BlockKinds
<1>3. ASSUME NEW c \in Blocks
      PROVE  /\ IsPrefix(g, c) <=> c = g \/ c = StarIn(g)
             /\ IsPrefix(StarIn(g), c) <=> c = StarIn(g)
  <2>1. Front(c) \in {Universe} \cup Galaxy
    BY BlockKinds
  <2>2. Front(c) # StarIn(g)
    BY <2>1, Paths
  <2> QED
    BY <1>1, <1>2, <2>2, PrefixOf
<1> QED
  BY <1>1, <1>2, <1>3

LEMMA StarModelFacts ==
    /\ StarModel \in [Index -> Default \cup {NULL}]
    /\ StarModel[0] # NULL /\ StarModel[0].type = "int"
    /\ \A i \in Index : i # 0 => StarModel[i] = NULL
    /\ Contiguous(StarModel)
    /\ \A i \in Index : i < KrnParamCount(StarModel) <=> i = 0
<1>1. 0 \in Index /\ Set("int", Zero) \in Default /\ Set("int", Zero).type = "int"
  BY Indexes, ParamFacts, ParameterAssumption DEF Types, Set
<1>2. None \in [Index -> Default \cup {NULL}] /\ \A i \in Index : None[i] = NULL
  BY DEF None
<1>3. StarModel[0] = Set("int", Zero) /\ \A i \in Index : i # 0 => StarModel[i] = NULL
  BY <1>1, <1>2 DEF StarModel
<1>4. StarModel \in [Index -> Default \cup {NULL}]
  BY <1>1, <1>2 DEF StarModel
<1>5. StarModel[0] # NULL
  BY <1>1, <1>3, ParamFacts
<1>6. Contiguous(StarModel)
  <2>1. \A i, j \in Index : i < j /\ StarModel[j] # NULL => StarModel[i] # NULL
    BY <1>3, Indexes
  <2> QED
    BY <2>1, NoGap
<1>7. \A i \in Index : i < KrnParamCount(StarModel) <=> i = 0
  BY <1>3, <1>5, <1>6, ContiguousEnds
<1> QED
  BY <1>1, <1>3, <1>4, <1>5, <1>6, <1>7

LEMMA NoneContiguous == Contiguous(None) /\ \A i \in Index : ~(i < KrnParamCount(None))
<1>1. \A i \in Index : None[i] = NULL
  BY DEF None
<1>2. Contiguous(None)
  BY <1>1, NoGap
<1> QED
  BY <1>1, <1>2, ContiguousEnds

(* A block that is made from the line that store has written for it. *)
LineOf(n, m, b, table, args) ==
    /\ m.kids[Front(b)] = Append(n.kids[Front(b)], b)
    /\ \A i \in Index : m.param[b][i] = Renumbered(table[i], args)

LEMMA CreatedStored ==
    ASSUME NEW n, IsNet(n), NEW b \in Blocks, NEW table \in [Index -> Param \cup {NULL}],
           Contiguous(table), NEW args, NEW params, params = PrInfoParams(table, args, Kept),
           NEW m, m = Created(n, b, params)
    PROVE  LineOf(n, m, b, table, args)
<1>1. PICK K, M, F, P : n = [kids |-> K, model |-> M, flag |-> F, param |-> P]
  BY NetParts
<1>2. K = n.kids /\ P = n.param
  BY <1>1
<1>3. K \in [Blocks -> Seq(Blocks \ {Universe})] /\ P \in [Blocks -> Table] /\ Front(b) \in Blocks
  BY <1>2, NetParts, BlockKinds, Paths
<1>4. PICK T : T = [i \in Index |-> IF i < Len(params) THEN params[i + 1] ELSE NULL]
  OBVIOUS
<1>5. PICK K1, P1 : K1 = [K EXCEPT ![Front(b)] = Append(@, b)] /\ P1 = [P EXCEPT ![b] = T]
  OBVIOUS
<1>6. K1[Front(b)] = Append(K[Front(b)], b) /\ P1[b] = T
  BY <1>3, <1>5
<1>7. m = [n EXCEPT !.kids[Front(b)] = Append(@, b), !.param[b] = T]
  BY <1>4 DEF Created
<1>8. PICK a1 : a1 = [n EXCEPT !.kids[Front(b)] = Append(@, b)]
  OBVIOUS
<1>9. a1 = [kids |-> K1, model |-> M, flag |-> F, param |-> P]
  BY <1>1, <1>5, <1>8
<1>10. m = [a1 EXCEPT !.param[b] = T]
  BY <1>7, <1>8
<1>11. m = [kids |-> K1, model |-> M, flag |-> F, param |-> P1]
  BY <1>5, <1>9, <1>10
<1>12. m.kids = K1 /\ m.param = P1
  BY <1>11
<1>13. PICK c : c = KrnParamCount(table)
  OBVIOUS
<1>14. c \in 0..MAX_PARAM /\ MAX_PARAM \in Nat
  BY <1>13, CountBound, Indexes
<1>15. params = [i \in 1..c |-> LET p == table[i - 1]
                                IN IF IsBound(p) THEN [type |-> "arg", val |-> Zero, arg |-> Assoc(args, p.arg, Kept)]
                                   ELSE p]
  BY <1>13 DEF PrInfoParams
<1>16. Len(params) = c
  BY <1>14, <1>15
<1>17. ASSUME NEW i \in Index
       PROVE  T[i] = Renumbered(table[i], args)
  <2>1. i \in Nat
    BY Indexes
  <2>2. CASE i < c
    <3>1. i + 1 \in 1..c /\ (i + 1) - 1 = i
      BY <1>14, <2>1, <2>2
    <3>2. params[i + 1] = Renumbered(table[i], args)
      BY <1>15, <3>1 DEF Renumbered
    <3> QED
      BY <1>4, <1>16, <2>2, <3>2
  <2>3. CASE ~(i < c)
    <3>1. table[i] = NULL
      BY <1>13, <2>3, ContiguousEnds
    <3>2. T[i] = NULL
      BY <1>4, <1>16, <2>3
    <3> QED
      BY <3>1, <3>2 DEF Renumbered, IsBound
  <2> QED
    BY <2>2, <2>3
<1> QED
  BY <1>2, <1>6, <1>12, <1>17 DEF LineOf

EmptiedOwnIn(f, m, g) ==
    /\ m.model[ModelOf(g)] = f.args /\ m.flag[ModelOf(g)] = f.declared
    /\ g = Universe => m.param[g] = f.args

LEMMA EmptiedOwn ==
    ASSUME NEW n, IsNet(n), NEW g \in Blocks, NEW f, NEW m, m = Emptied(f, n, g)
    PROVE  EmptiedOwnIn(f, m, g)
<1>1. PICK r : r = RemoveChildren(n, g)
  OBVIOUS
<1>2. IsNet(r)
  BY <1>1, RemoveChildrenFacts DEF RemovedIn
<1>3. PICK K, M, F, P : r = [kids |-> K, model |-> M, flag |-> F, param |-> P]
  BY <1>2, NetParts
<1>4. M = r.model /\ F = r.flag /\ P = r.param /\ ModelOf(g) \in Models
  BY <1>3, BlockKinds
<1>5. /\ M \in [Models -> [Index -> Default \cup {NULL}]] /\ F \in [Models -> BOOLEAN]
      /\ P \in [Blocks -> Table]
  BY <1>2, <1>4, NetParts
<1>6. PICK a1 : a1 = [r EXCEPT !.flag[ModelOf(g)] = f.declared]
  OBVIOUS
<1>7. PICK F1 : F1 = [F EXCEPT ![ModelOf(g)] = f.declared]
  OBVIOUS
<1>8. a1 = [kids |-> K, model |-> M, flag |-> F1, param |-> P]
  BY <1>3, <1>6, <1>7
<1>9. PICK a2, M1 : a2 = [a1 EXCEPT !.model[ModelOf(g)] = f.args] /\ M1 = [M EXCEPT ![ModelOf(g)] = f.args]
  OBVIOUS
<1>10. a2 = [kids |-> K, model |-> M1, flag |-> F1, param |-> P]
  BY <1>8, <1>9
<1>11. PICK v : v = IF g = Universe THEN f.args ELSE P[g]
  OBVIOUS
<1>12. PICK P1 : P1 = [P EXCEPT ![g] = v]
  OBVIOUS
<1>13. m = [a2 EXCEPT !.param[g] = v]
  <2>1. m = [r EXCEPT !.flag[ModelOf(g)] = f.declared, !.model[ModelOf(g)] = f.args,
                      !.param[g] = IF g = Universe THEN f.args ELSE @]
    BY <1>1 DEF Emptied
  <2> QED
    BY <1>3, <1>6, <1>9, <1>10, <1>11, <2>1
<1>14. m = [kids |-> K, model |-> M1, flag |-> F1, param |-> P1]
  BY <1>10, <1>12, <1>13
<1>15. m.model = M1 /\ m.flag = F1 /\ m.param = P1
  BY <1>14
<1> QED
  BY <1>4, <1>5, <1>7, <1>9, <1>11, <1>12, <1>15 DEF EmptiedOwnIn

(* Parameters and arguments of a net that can be stored. *)
LEMMA StorableParam ==
    ASSUME NEW n, Storable(n), NEW b \in Present(n), NEW i \in Index, NEW p, p = n.param[b][i], p # NULL
    PROVE  /\ p \in Param
           /\ n.model[ModelOf(b)][i] # NULL /\ n.model[ModelOf(b)][i].type = p.type
           /\ IsBound(p) => /\ p.arg \in Index /\ b # Universe
                            /\ n.param[Front(b)][p.arg] # NULL
                            /\ n.param[Front(b)][p.arg].type = p.type
                            /\ n.param[Front(b)][p.arg].val = p.val
                            /\ Front(b) \in Present(n) /\ Front(b) \in {Universe} \cup Galaxy
<1>1. IsNet(n) /\ Consistent(n) /\ b \in Blocks
  BY DEF Storable, Present
<1>2. p \in Param
  BY <1>1, NetFields
<1>3. n.model[ModelOf(b)][i] # NULL /\ n.model[ModelOf(b)][i].type = p.type
  BY <1>1 DEF Consistent
<1>4. ASSUME IsBound(p)
      PROVE  /\ p.arg \in Index /\ b # Universe
             /\ n.param[Front(b)][p.arg] # NULL
             /\ n.param[Front(b)][p.arg].type = p.type
             /\ n.param[Front(b)][p.arg].val = p.val
             /\ Front(b) \in Present(n) /\ Front(b) \in {Universe} \cup Galaxy
  <2>1. b # Universe
    BY <1>1, <1>4, NetFields
  <2>2. PICK x : x = <<b, i>>
    OBVIOUS
  <2>3. x \in Bindings(n)
    BY <1>1, <1>4, <2>1, <2>2 DEF Bindings
  <2>4. p.arg \in Index /\ Front(b) \in {Universe} \cup Galaxy
    BY <1>1, <2>2, <2>3, BindingFacts
  <2>5. PICK y : y = n.param[Front(b)][p.arg]
    OBVIOUS
  <2>6. Given(n, x) = y
    BY <2>2, <2>5 DEF Given
  <2>7. y # NULL /\ y = [p EXCEPT !.arg = y.arg]
    BY <1>1, <2>2, <2>3, <2>6 DEF Consistent
  <2>8. y.type = p.type /\ y.val = p.val
    BY <1>2, <2>7 DEF Param
  <2>9. Front(b) \in Present(n)
    <3>1. Front(b) \in Blocks
      BY <1>1, <2>3, <2>2, BindingFacts
    <3>2. None[p.arg] = NULL
      BY <2>4 DEF None
    <3> QED
      BY <1>1, <2>5, <2>7, <3>1, <3>2, NetFields
  <2> QED
    BY <2>1, <2>4, <2>5, <2>7, <2>8, <2>9
<1> QED
  BY <1>2, <1>3, <1>4

(* The universe's arguments get new numbers, those of its galaxies keep    *)
(* theirs as far as the galaxies have parameters.                          *)
LEMMA UniverseNumbers ==
    ASSUME NEW n, Storable(n), NEW k \in Index, n.param[Universe][k] # NULL,
           NEW a, a = Assoc(n.model[0], k, Kept)
    PROVE  /\ a \in Index
           /\ PrInfoArgs(n.model[0])[a] = n.param[Universe][k]
<1>1. n.model[0] = n.param[Universe]
  BY DEF Storable, Consistent
<1> QED
  BY <1>1, AssocIndex, AssocRank, ArgAtRank, KeptNumbers

LEMMA GalaxyNumbers ==
    ASSUME NEW n, Storable(n), NEW g \in Galaxy, g \in Present(n), NEW k \in Index, n.param[g][k] # NULL
    PROVE  /\ Assoc(n.model[1], k, Kept) = k
           /\ PrInfoArgs(n.model[1])[k] = n.model[1][k]
           /\ n.model[1][k] # NULL /\ n.model[1][k].type = n.param[g][k].type
<1>1. ModelOf(g) = 1 /\ g \in Range(n.kids[Universe]) /\ Universe \in Present(n)
  BY GalaxyPaths, Paths DEF Present
<1>2. Contiguous(n.param[g])
  BY <1>1 DEF Storable, Printable
<1>3. \A j \in Index : j < k => n.param[g][j] # NULL
  <2>1. k < KrnParamCount(n.param[g]) /\ KrnParamCount(n.param[g]) \in Nat
    BY <1>2, ContiguousEnds, CountBound
  <2>2. \A j \in Index : j < k => j < KrnParamCount(n.param[g])
    BY <2>1, Indexes
  <2> QED
    BY <1>2, <2>2, ContiguousEnds
<1>4. \A j \in Index : n.param[g][j] # NULL =>
         n.model[1][j] # NULL /\ n.model[1][j].type = n.param[g][j].type
  BY <1>1 DEF Storable, Consistent
<1>5. Rank(n.model[1], k) = k
  BY <1>3, <1>4, RankInPlace
<1> QED
  BY <1>4, <1>5, AssocRank, ArgAtRank

(* The star of a galaxy that is loaded. *)
StarRead(n, m, r, g) ==
    /\ r.ok = TRUE /\ IsNet(r.net)
    /\ r.net.kids[g] = Append(m.kids[g], StarIn(g))
    /\ \A c \in Blocks : c # g => r.net.kids[c] = m.kids[c]
    /\ r.net.model = m.model
    /\ r.net.flag[0] = m.flag[0]
    /\ \A c \in Blocks, i \in Index : c # StarIn(g) => r.net.param[c][i] = m.param[c][i]
    /\ \A i \in Index : Alike(n.param[StarIn(g)][i], r.net.param[StarIn(g)][i])

LEMMA StarReloaded ==
    ASSUME NEW n, Storable(n), NEW g \in Galaxy, StarIn(g) \in Present(n),
           NEW m, IsNet(m), g \in Present(m), StarIn(g) \notin Present(m),
           m.model[1] = PrInfoArgs(n.model[1]), m.flag[1] = TRUE, m.model[2] = StarModel,
           NEW line, line.name = starName,
           line.params = PrInfoParams(n.param[StarIn(g)], n.model[1], Kept),
           NEW r, r = StarLine(g, Result(TRUE, m), line)
    PROVE  StarRead(n, m, r, g)
<1>1. PICK b, t : b = StarIn(g) /\ t = n.param[b]
  OBVIOUS
<1>2. /\ b \in Blocks /\ b # Universe /\ b # g /\ b \in Star /\ Front(b) = g /\ ModelOf(b) = 2
      /\ g \in Blocks /\ ModelOf(g) = 1
      /\ \A c \in Blocks : IsPrefix(b, c) <=> c = b
  BY <1>1, GalaxyPaths
<1>3. IsNet(n) /\ n.model[2] = StarModel /\ b \in Present(n)
  BY <1>1 DEF Storable, StarsHave
<1>4. g \in Present(n) /\ b \in Range(n.kids[g])
  <2>1. b \in Range(n.kids[g])
    BY <1>2, <1>3 DEF Present
  <2>2. n.kids[g] # <<>>
    BY <2>1 DEF Range
  <2> QED
    BY <1>2, <1>3, <2>1, <2>2, NetFields
<1>5. /\ t[0] # NULL /\ t \in [Index -> Param \cup {NULL}] /\ Contiguous(t)
  <2>1. t[0] # NULL
    BY <1>1, <1>4 DEF Storable, StarsHave
  <2>2. Contiguous(t)
    BY <1>1, <1>4 DEF Storable, Printable
  <2> QED
    BY <1>1, <1>2, <1>3, <2>1, <2>2, NetFields
<1>6. \A i \in Index : i # 0 => t[i] = NULL
  <2>1. \A i \in Index : t[i] # NULL => StarModel[i] # NULL
    BY <1>1, <1>2, <1>3, StorableParam
  <2> QED
    BY <2>1, StarModelFacts
<1>7. PICK params : params = line.params
  OBVIOUS
<1>8. params = PrInfoParams(t, n.model[1], Kept)
  BY <1>1, <1>7
<1>9. params \in Seq(LineParams)
  BY <1>5, <1>8, StoredParams, KeptNumbers
<1>10. 0 \in Index /\ t[0] \in Param /\ t[0].type = "int"
  BY <1>1, <1>2, <1>3, <1>5, Indexes, StarModelFacts, StorableParam
<1>11. IsBound(t[0]) =>
          /\ t[0].arg \in Index /\ Assoc(n.model[1], t[0].arg, Kept) = t[0].arg
          /\ m.model[1][t[0].arg] # NULL /\ m.model[1][t[0].arg].type = "int"
  <2>1. SUFFICES ASSUME IsBound(t[0])
                 PROVE  /\ t[0].arg \in Index /\ Assoc(n.model[1], t[0].arg, Kept) = t[0].arg
                        /\ m.model[1][t[0].arg] # NULL /\ m.model[1][t[0].arg].type = "int"
    OBVIOUS
  <2>2. PICK p, k : p = t[0] /\ k = p.arg
    OBVIOUS
  <2>3. k \in Index /\ n.param[g][k] # NULL /\ n.param[g][k].type = "int"
    BY <1>1, <1>2, <1>3, <1>5, <1>10, <2>1, <2>2, StorableParam
  <2>4. /\ Assoc(n.model[1], k, Kept) = k
        /\ PrInfoArgs(n.model[1])[k] = n.model[1][k]
        /\ n.model[1][k] # NULL /\ n.model[1][k].type = n.param[g][k].type
    BY <1>4, <2>3, GalaxyNumbers
  <2> QED
    BY <2>2, <2>3, <2>4
<1>12. ~\E i \in DOMAIN params : LineParamRefuses(m, g, params[i])
  <2>1. ASSUME NEW i \in DOMAIN params
        PROVE  ~LineParamRefuses(m, g, params[i])
    <3>1. PICK c : c = KrnParamCount(t)
      OBVIOUS
    <3>2. i \in 1..c /\ c \in Nat /\ c \in 0..MAX_PARAM /\ MAX_PARAM \in Nat
      BY <1>8, <3>1, CountBound, Indexes DEF PrInfoParams
    <3>3. PICK j : j = i - 1
      OBVIOUS
    <3>4. j \in Index /\ j < c
      BY <3>2, <3>3 DEF Index
    <3>5. j = 0
      BY <1>5, <1>6, <3>1, <3>4, ContiguousEnds
    <3>6. PICK p : p = t[0]
      OBVIOUS
    <3>7. params[i] = IF IsBound(p) THEN [type |-> "arg", val |-> Zero, arg |-> Assoc(n.model[1], p.arg, Kept)]
                      ELSE p
      BY <1>8, <3>1, <3>2, <3>3, <3>5, <3>6 DEF PrInfoParams
    <3>8. CASE IsBound(p)
      <4>1. params[i].type = "arg" /\ params[i].arg = p.arg
        BY <1>11, <3>6, <3>7, <3>8
      <4> QED
        BY <1>2, <1>11, <3>6, <3>8, <4>1, Indexes DEF LineParamRefuses
    <3>9. CASE ~IsBound(p)
      BY <1>10, <3>6, <3>7, <3>9 DEF LineParamRefuses
    <3> QED
      BY <3>8, <3>9
  <2> QED
    BY <2>1
<1>13. PICK e : e = Created(m, b, params)
  OBVIOUS
<1>14. r = KrnVerifyParams(e, b)
  <2>1. b = Append(g, line.name)
    BY <1>1 DEF StarIn
  <2>2. Result(TRUE, m).ok = TRUE /\ Result(TRUE, m).net = m
    BY ResultParts
  <2> QED
    BY <1>7, <1>12, <1>13, <2>1, <2>2 DEF StarLine
<1>15. CreatedIn(m, e, b)
  BY <1>1, <1>2, <1>9, <1>13, CreatedFacts
<1>16. /\ IsNet(e) /\ b \in Present(e) /\ e.model = m.model /\ e.flag = m.flag
       /\ \A c \in Blocks : c # b => e.param[c] = m.param[c]
       /\ \A c \in Blocks : c # g => e.kids[c] = m.kids[c]
  BY <1>2, <1>15 DEF CreatedIn
<1>17. e.kids[g] = Append(m.kids[g], b) /\ \A i \in Index : e.param[b][i] = Renumbered(t[i], n.model[1])
  <2>1. LineOf(m, e, b, t, n.model[1])
    BY <1>2, <1>5, <1>8, <1>13, CreatedStored
  <2> QED
    BY <1>2, <2>1 DEF LineOf
<1>18. e.param[b][0].type = (IF IsBound(t[0]) THEN "arg" ELSE "int")
       /\ e.param[b][0] # NULL /\ e.param[b][0].arg = t[0].arg
       /\ (IsBound(e.param[b][0]) <=> IsBound(t[0]))
       /\ (~IsBound(t[0]) => e.param[b][0] = t[0])
  <2>1. PICK p, q : p = t[0] /\ q = e.param[b][0]
    OBVIOUS
  <2>2. q = Renumbered(p, n.model[1])
    BY <1>10, <1>17, <2>1
  <2>3. q \in Param \cup {NULL}
    BY <1>2, <1>10, <1>16, <2>1, NetFields
  <2>4. CASE IsBound(p)
    <3>1. q = [type |-> "arg", val |-> Zero, arg |-> p.arg]
      BY <1>11, <2>1, <2>2, <2>4 DEF Renumbered
    <3>2. q \in Param
      BY <1>11, <2>1, <2>4, <3>1, ParameterAssumption DEF Param
    <3>3. q # NULL
      BY <3>2, ParamFacts
    <3> QED
      BY <1>11, <2>1, <2>4, <3>1, <3>3, Indexes DEF IsBound
  <2>5. CASE ~IsBound(p)
    <3>1. q = p
      BY <2>2, <2>5 DEF Renumbered
    <3> QED
      BY <1>5, <1>10, <2>1, <2>5, <3>1
  <2> QED
    BY <2>4, <2>5
<1>19. AllFit(e, b)
  <2>1. e.model[ModelOf(b)] = StarModel
    BY <1>2, <1>16
  <2>2. ASSUME NEW i \in Index, i < Steps(e, b)
        PROVE  Fits(e, b, i)
    <3>1. i = 0
      BY <2>1, <2>2, StarModelFacts DEF Steps
    <3>2. PICK p : p = e.param[b][i]
      OBVIOUS
    <3>3. e.model[ModelOf(b)][i] # NULL /\ e.model[ModelOf(b)][i].type = "int"
      BY <2>1, <3>1, StarModelFacts
    <3>4. IsBound(p) => e.model[ModelOf(b) - 1][p.arg] # NULL /\ e.model[ModelOf(b) - 1][p.arg].type = "int"
      BY <1>2, <1>11, <1>16, <1>18, <3>1, <3>2
    <3>5. p # NULL /\ ~IsBound(p) => p.type = "int"
      BY <1>18, <3>1, <3>2
    <3> QED
      BY <3>2, <3>3, <3>4, <3>5 DEF Fits
  <2> QED
    BY <2>1, <2>2, StarModelFacts DEF AllFit
<1>20. ~Creates(e, b)
  BY <1>2, <1>16 DEF Creates
<1>21. r.ok = TRUE /\ Fitting(e, r.net, b, Steps(e, b))
  BY <1>14, <1>16, <1>19, <1>20, VerifyFits
<1>22. PICK z : z = r.net
  OBVIOUS
<1>23. /\ IsNet(z) /\ z.kids = e.kids /\ z.model = e.model
       /\ z.flag = [e.flag EXCEPT ![2] = TRUE]
       /\ \A c \in Blocks, j \in Index : ~IsPrefix(b, c) => z.param[c][j] = e.param[c][j]
       /\ \A j \in Index : j < Steps(e, b) => Filled(e.param[b][j], z.param[b][j], e.model[2][j])
       /\ \A j \in Index : Steps(e, b) <= j => z.param[b][j] = NULL
  BY <1>2, <1>21, <1>22 DEF Fitting
<1>24. \A c \in Blocks, i \in Index : c # b => z.param[c][i] = m.param[c][i]
  BY <1>2, <1>16, <1>23
<1>25. z.flag[0] = m.flag[0]
  <2>1. e.flag \in [Models -> BOOLEAN] /\ 0 \in Models /\ 0 # 2
    BY <1>16, NetParts DEF Models
  <2> QED
    BY <1>16, <1>23, <2>1
<1>26. \A i \in Index : i < Steps(e, b) <=> i = 0
  BY <1>2, <1>16, StarModelFacts DEF Steps
<1>27. ASSUME NEW i \in Index
       PROVE  Alike(t[i], z.param[b][i])
  <2>1. CASE i = 0
    <3>1. Filled(e.param[b][0], z.param[b][0], StarModel[0])
      BY <1>2, <1>10, <1>16, <1>23, <1>26
    <3>2. PICK p, q, v : p = t[0] /\ q = e.param[b][0] /\ v = z.param[b][0]
      OBVIOUS
    <3>3. Filled(q, v, StarModel[0]) /\ q # NULL /\ q.arg = p.arg /\ (IsBound(q) <=> IsBound(p)) /\ (~IsBound(p) => q = p)
      BY <1>18, <3>1, <3>2
    <3>4. p # NULL /\ p.type = "int"
      BY <1>5, <1>10, <3>2
    <3>5. Alike(p, v)
      BY <3>3, <3>4, StarModelFacts DEF Filled, Alike
    <3> QED
      BY <2>1, <3>2, <3>5
  <2>2. CASE i # 0
    <3>1. t[i] = NULL
      BY <1>6, <2>2
    <3>2. Steps(e, b) <= i
      <4>1. Steps(e, b) \in Nat /\ i \in Nat /\ ~(i < Steps(e, b))
        BY <1>26, <2>2, CountBound, Indexes DEF Steps
      <4> QED
        BY <4>1
    <3>3. z.param[b][i] = NULL
      BY <1>23, <3>2
    <3> QED
      BY <3>1, <3>3 DEF Alike
  <2> QED
    BY <2>1, <2>2
<1>28. /\ z.kids[g] = Append(m.kids[g], b) /\ z.model = m.model
       /\ \A c \in Blocks : c # g => z.kids[c] = m.kids[c]
  BY <1>16, <1>17, <1>23
<1>29. \A i \in Index : Alike(n.param[b][i], z.param[b][i])
  BY <1>1, <1>27
<1> QED
  <2>1. r.ok = TRUE
    BY <1>21
  <2> QED
    <3>1. IsNet(r.net) /\ r.net.model = m.model /\ r.net.flag[0] = m.flag[0]
      BY <1>22, <1>23, <1>25, <1>28
    <3>2. r.net.kids[g] = Append(m.kids[g], StarIn(g))
      BY <1>1, <1>22, <1>28
    <3>3. \A c \in Blocks : c # g => r.net.kids[c] = m.kids[c]
      BY <1>22, <1>28
    <3>4. \A c \in Blocks, i \in Index : c # StarIn(g) => r.net.param[c][i] = m.param[c][i]
      BY <1>1, <1>22, <1>24
    <3>5. \A i \in Index : Alike(n.param[StarIn(g)][i], r.net.param[StarIn(g)][i])
      BY <1>1, <1>22, <1>29
    <3> QED
      BY <2>1, <3>1, <3>2, <3>3, <3>4, <3>5, Zenon DEF StarRead

-----------------------------------------------------------------------------
(* A galaxy that is loaded into a universe. *)
GalaxyRead(n, m, r, g) ==
    /\ r.ok = TRUE /\ IsNet(r.net) /\ g \in Present(r.net)
    /\ \A c \in Blocks : ~IsPrefix(g, c) => r.net.kids[c] = m.kids[c]
    /\ \A c \in Blocks, i \in Index : ~IsPrefix(g, c) => r.net.param[c][i] = m.param[c][i]
    /\ r.net.model[0] = m.model[0] /\ r.net.flag[0] = m.flag[0] /\ r.net.model[2] = m.model[2]
    /\ GalaxyAs(n, r.net, g)

(* The file of the galaxies, and the children that are in it. *)
LEMMA OneStar ==
    ASSUME NEW n, IsNet(n), NEW g \in Galaxy, n.kids[g] # <<>>
    PROVE  n.kids[g] = <<StarIn(g)>> /\ StarIn(g) \in Present(n) /\ g \in Present(n)
<1>1. g \in Blocks /\ \A c \in Blocks : c # Universe /\ Front(c) = g => c = StarIn(g)
  BY GalaxyPaths
<1>2. PICK s : s = n.kids[g]
  OBVIOUS
<1>3. /\ s \in Seq(Blocks \ {Universe}) /\ IsInjective(s)
      /\ \A c \in Range(s) : c \in Blocks /\ c # Universe /\ Front(c) = g
      /\ g \in Present(n)
  BY <1>1, <1>2, NetFields
<1>4. \A i \in 1..Len(s) : s[i] \in Range(s) /\ s[i] = StarIn(g)
  BY <1>1, <1>3 DEF Range
<1>5. Len(s) \in Nat /\ DOMAIN s = 1..Len(s) /\ Len(s) # 0
  BY <1>2, <1>3
<1>6. Len(s) = 1
  <2>1. \A i, j \in 1..Len(s) : i = j
    BY <1>3, <1>4, <1>5 DEF IsInjective
  <2>2. 1 \in 1..Len(s) /\ Len(s) \in 1..Len(s)
    BY <1>5
  <2> QED
    BY <2>1, <2>2
<1>7. s = <<StarIn(g)>>
  BY <1>3, <1>4, <1>6
<1>8. StarIn(g) \in Range(s)
  BY <1>4, <1>5, <1>6
<1> QED
  BY <1>2, <1>3, <1>7, <1>8, GalaxyPaths DEF Present

(* The parameters of a galaxy before and after it is verified. *)
Unfitted(n, e, g) ==
    /\ IsNet(e) /\ g \in Present(e)
    /\ e.model[0] = PrInfoArgs(n.model[0]) /\ e.flag[0] = TRUE
    /\ e.model[1] = PrInfoArgs(n.model[1])
    /\ \A i \in Index : e.param[g][i] = Renumbered(n.param[g][i], n.model[0])

Fitted(n, e, r, g) ==
    /\ r.ok = TRUE /\ Fitting(e, r.net, g, Steps(e, g))
    /\ \A i \in Index : Carried(n.param[g][i], r.net.param[g][i], n.model[0])

LEMMA GalaxyFits ==
    ASSUME NEW n, Storable(n), NEW g \in Galaxy, g \in Present(n),
           NEW e, Unfitted(n, e, g), NEW r, r = KrnVerifyParams(e, g)
    PROVE  Fitted(n, e, r, g)
<1> USE DEF Unfitted
<1>1. g \in Blocks /\ g # Universe /\ ModelOf(g) = 1 /\ Front(g) = Universe
  BY GalaxyPaths
<1>2. PICK t : t = e.model[1]
  OBVIOUS
<1>3. Contiguous(t)
  BY <1>2, StoredContiguous
<1>4. ASSUME NEW i \in Index, NEW p, p = n.param[g][i], p # NULL, NEW q, q = e.param[g][i]
      PROVE  /\ p \in Param /\ t[i] # NULL /\ t[i].type = p.type /\ i < Steps(e, g)
             /\ q # NULL /\ (IsBound(q) <=> IsBound(p))
             /\ IsBound(p) => /\ q.arg = Assoc(n.model[0], p.arg, Kept)
                              /\ e.model[0][q.arg] # NULL /\ e.model[0][q.arg].type = p.type
             /\ ~IsBound(p) => q = p
  <2>1. /\ p \in Param
        /\ IsBound(p) => /\ p.arg \in Index /\ n.param[Universe][p.arg] # NULL
                         /\ n.param[Universe][p.arg].type = p.type
    BY <1>1, <1>4, StorableParam
  <2>2. t[i] # NULL /\ t[i].type = p.type
    BY <1>2, <1>4, GalaxyNumbers
  <2>3. i < Steps(e, g)
    BY <1>1, <1>2, <1>3, <2>2, ContiguousEnds DEF Steps
  <2>4. q = Renumbered(p, n.model[0])
    BY <1>4
  <2>5. CASE IsBound(p)
    <3>1. PICK a : a = Assoc(n.model[0], p.arg, Kept)
      OBVIOUS
    <3>2. a \in Index /\ PrInfoArgs(n.model[0])[a] = n.param[Universe][p.arg]
      BY <2>1, <2>5, <3>1, UniverseNumbers
    <3>3. q = [type |-> "arg", val |-> Zero, arg |-> a]
      BY <2>4, <2>5, <3>1 DEF Renumbered
    <3>4. q \in Param
      BY <3>2, <3>3, ParameterAssumption DEF Param
    <3>5. q # NULL /\ q.arg = a /\ IsBound(q)
      BY <3>2, <3>3, <3>4, ParamFacts, Indexes DEF IsBound
    <3> QED
      BY <2>1, <2>2, <2>3, <2>5, <3>1, <3>2, <3>5
  <2>6. CASE ~IsBound(p)
    <3>1. q = p
      BY <2>4, <2>6 DEF Renumbered
    <3> QED
      BY <1>4, <2>1, <2>2, <2>3, <2>6, <3>1
  <2> QED
    BY <2>5, <2>6
<1>5. ASSUME NEW i \in Index, n.param[g][i] = NULL
      PROVE  e.param[g][i] = NULL
  BY <1>5 DEF Renumbered, IsBound
<1>6. ASSUME NEW i \in Index, i < Steps(e, g)
      PROVE  Fits(e, g, i)
  <2>1. t[i] # NULL
    BY <1>1, <1>2, <1>3, <1>6, ContiguousEnds DEF Steps
  <2>2. PICK p, q : p = n.param[g][i] /\ q = e.param[g][i]
    OBVIOUS
  <2>3. CASE p = NULL
    <3>1. q = NULL
      BY <1>5, <2>2, <2>3
    <3> QED
      BY <1>1, <1>2, <2>1, <2>2, <3>1 DEF Fits, IsBound
  <2>4. CASE p # NULL
    <3>1. /\ t[i].type = p.type /\ (IsBound(q) <=> IsBound(p))
          /\ IsBound(p) => e.model[0][q.arg] # NULL /\ e.model[0][q.arg].type = p.type
          /\ ~IsBound(p) => q = p
      BY <1>4, <2>2, <2>4
    <3> QED
      BY <1>1, <1>2, <2>1, <2>2, <3>1 DEF Fits
  <2> QED
    BY <2>3, <2>4
<1>7. AllFit(e, g)
  BY <1>1, <1>2, <1>3, <1>6 DEF AllFit
<1>8. ~Creates(e, g)
  BY <1>1 DEF Creates
<1>9. r.ok = TRUE /\ Fitting(e, r.net, g, Steps(e, g))
  BY <1>7, <1>8, VerifyFits
<1>10. ASSUME NEW i \in Index
       PROVE  Carried(n.param[g][i], r.net.param[g][i], n.model[0])
  <2>1. PICK p, q, v : p = n.param[g][i] /\ q = e.param[g][i] /\ v = r.net.param[g][i]
    OBVIOUS
  <2>2. CASE p = NULL
    BY <2>1, <2>2 DEF Carried
  <2>3. CASE p # NULL
    <3>1. /\ t[i].type = p.type /\ i < Steps(e, g) /\ q # NULL /\ (IsBound(q) <=> IsBound(p))
          /\ IsBound(p) => q.arg = Assoc(n.model[0], p.arg, Kept)
          /\ ~IsBound(p) => q = p
      BY <1>4, <2>1, <2>3
    <3>2. Filled(q, v, t[i])
      BY <1>1, <1>2, <1>9, <2>1, <3>1 DEF Fitting
    <3>3. v # NULL /\ v.type = p.type /\ v.arg = q.arg /\ (~IsBound(q) => v.val = q.val)
      BY <3>1, <3>2 DEF Filled
    <3>4. Carried(p, v, n.model[0])
      BY <3>1, <3>3 DEF Carried, IsBound
    <3> QED
      BY <2>1, <3>4
  <2> QED
    BY <2>2, <2>3
<1> QED
  BY <1>9, <1>10 DEF Fitted

LEMMA GalaxyReloaded ==
    ASSUME NEW n, Storable(n), NEW g \in Galaxy, g \in Present(n),
           NEW m, IsNet(m), g \in Present(m), m.model[0] = PrInfoArgs(n.model[0]), m.flag[0] = TRUE,
           m.model[2] = StarModel,
           \A i \in Index : m.param[g][i] = Renumbered(n.param[g][i], n.model[0]),
           NEW fs, fs[1] = Stored(n, g, Kept), NEW r, r = LoadGalaxy(fs, m, g)
    PROVE  GalaxyRead(n, m, r, g)
<1>1. /\ g \in Blocks /\ g # Universe /\ ModelOf(g) = 1 /\ Front(g) = Universe
      /\ StarIn(g) \in Blocks /\ StarIn(g) # g /\ StarIn(g) # Universe /\ Front(StarIn(g)) = g
      /\ \A c \in Blocks : IsPrefix(g, c) <=> c = g \/ c = StarIn(g)
      /\ ~IsPrefix(g, Universe) /\ Universe \in Blocks
  BY GalaxyPaths, Paths, PrefixOf
<1>2. IsNet(n) /\ Printable(n, g)
  BY DEF Storable
<1>3. PICK f, N : f = fs[1] /\ N = Len(f.blocks)
  OBVIOUS
<1>4. IsFile(f, {starName})
  BY <1>1, <1>2, <1>3, StoredFile, KeptNumbers
<1>5. N \in Nat
  BY <1>3, <1>4 DEF IsFile
<1>6. PICK h : /\ StarsRead(h, f, m, g, N)
               /\ r = IF h[N].ok THEN KrnVerifyParams(h[N].net, g)
                      ELSE Result(FALSE, RemoveChildren(h[N].net, g))
  <2>1. StarsLoaded(r, f, m, g, N)
    BY <1>3, <1>5, StarsReadRun
  <2> QED
    BY <2>1 DEF StarsLoaded
<1>7. PICK e0 : e0 = Emptied(f, m, g)
  OBVIOUS
<1>8. /\ IsNet(e0) /\ g \in Present(e0)
      /\ \A c \in Blocks : ~IsPrefix(g, c) => e0.param[c] = m.param[c] /\ e0.kids[c] = m.kids[c]
      /\ e0.param[g] = m.param[g]
      /\ e0.kids[g] = <<>>
      /\ \A k \in Models : k # 1 => e0.model[k] = m.model[k] /\ e0.flag[k] = m.flag[k]
  BY <1>1, <1>4, <1>7, EmptiedFacts
<1>9. e0.model[1] = f.args /\ e0.flag[1] = f.declared
  <2>1. EmptiedOwnIn(f, e0, g)
    BY <1>1, <1>7, EmptiedOwn
  <2> QED
    BY <1>1, <2>1 DEF EmptiedOwnIn
<1>10. e0.model[0] = m.model[0] /\ e0.flag[0] = m.flag[0] /\ e0.model[2] = m.model[2]
  BY <1>8 DEF Models
<1>11. h[0].ok = TRUE /\ h[0].net = e0
  <2>1. 0 \in 0..N
    BY <1>5
  <2>2. h[0] = Result(TRUE, e0)
    BY <1>6, <1>7, <2>1 DEF StarsRead
  <2>3. Result(TRUE, e0).ok = TRUE /\ Result(TRUE, e0).net = e0
    BY ResultParts
  <2> QED
    BY <2>2, <2>3
<1>12. Universe \in Blocks /\ ModelOf(Universe) = 0 /\ Front(Universe) = Universe
  BY Paths
<1>13. CASE n.kids[g] = <<>>
  <2>1. Stored(n, g, Kept) = [declared |-> FALSE, args |-> None, blocks |-> <<>>]
    BY <1>13 DEF Stored
  <2>2. f.declared = FALSE /\ f.args = None /\ f.blocks = <<>>
    BY <1>3, <2>1
  <2>3. N = 0
    BY <1>3, <2>2
  <2>4. r = KrnVerifyParams(e0, g)
    BY <1>6, <1>11, <2>3
  <2>5. AllFit(e0, g)
    BY <1>1, <1>9, <2>2, NoneContiguous DEF AllFit, Steps
  <2>6. ~Creates(e0, g)
    BY <1>1, <1>10 DEF Creates
  <2>7. r.ok = TRUE /\ Fitting(e0, r.net, g, Steps(e0, g))
    BY <1>8, <2>4, <2>5, <2>6, VerifyFits
  <2>8. PICK z : z = r.net
    OBVIOUS
  <2>9. /\ IsNet(z) /\ z.kids = e0.kids /\ z.model = e0.model
        /\ z.flag = [e0.flag EXCEPT ![1] = TRUE]
        /\ \A c \in Blocks, j \in Index : ~IsPrefix(g, c) => z.param[c][j] = e0.param[c][j]
    BY <1>1, <2>7, <2>8 DEF Fitting
  <2>10. z.flag[0] = e0.flag[0]
    <3>1. e0.flag \in [Models -> BOOLEAN] /\ 0 \in Models
      BY <1>8, NetParts DEF Models
    <3> QED
      BY <2>9, <3>1
  <2>11. g \in Present(z)
    BY <1>8, <2>9 DEF Present
  <2>12. \A c \in Blocks, i \in Index : ~IsPrefix(g, c) => z.param[c][i] = m.param[c][i]
    BY <1>8, <2>9
  <2>13. GalaxyAs(n, z, g)
    BY <1>8, <1>13, <2>9 DEF GalaxyAs
  <2> QED
    BY <1>8, <1>10, <2>7, <2>8, <2>9, <2>10, <2>11, <2>12, <2>13 DEF GalaxyRead
<1>14. CASE n.kids[g] # <<>>
  <2>1. PICK b : b = StarIn(g)
    OBVIOUS
  <2>2. n.kids[g] = <<b>> /\ b \in Present(n)
    BY <1>2, <1>14, <2>1, OneStar
  <2>3. PICK bs : bs = [j \in DOMAIN n.kids[g] |->
                          [name |-> Last(n.kids[g][j]),
                           params |-> PrInfoParams(n.param[n.kids[g][j]], n.model[1], Kept)]]
    OBVIOUS
  <2>4. f = [declared |-> TRUE, args |-> PrInfoArgs(n.model[1]), blocks |-> bs]
    BY <1>1, <1>3, <1>14, <2>3 DEF Stored
  <2>5. f.declared = TRUE /\ f.args = PrInfoArgs(n.model[1]) /\ f.blocks = bs
    BY <2>4
  <2>6. PICK line : line = bs[1]
    OBVIOUS
  <2>7. DOMAIN n.kids[g] = 1..1 /\ n.kids[g][1] = b
    BY <2>2
  <2>8. line = [name |-> Last(b), params |-> PrInfoParams(n.param[b], n.model[1], Kept)]
    BY <2>3, <2>6, <2>7
  <2>9. Last(b) = starName
    <3>1. PICK names : names = {starName} /\ names = IF g = Universe THEN Names ELSE {starName}
      BY <1>1
    <3>2. g \in {Universe} \cup Galaxy
      OBVIOUS
    <3>3. Last(b) \in names
      BY <1>1, <2>1, <3>1, <3>2, ChildNames
    <3> QED
      BY <3>1, <3>3
  <2>10. line.name = starName /\ line.params = PrInfoParams(n.param[b], n.model[1], Kept)
    BY <2>8, <2>9
  <2>11. N = 1
    BY <1>3, <2>3, <2>5, <2>7
  <2>12. h[1] = StarLine(g, Result(TRUE, e0), line)
    <3>1. 1 \in 0..N /\ 1 # 0 /\ 1 - 1 = 0 /\ 0 \in 0..N
      BY <2>11
    <3>2. h[1] = StarLine(g, h[0], f.blocks[1]) /\ h[0] = Result(TRUE, e0)
      BY <1>6, <1>7, <3>1 DEF StarsRead
    <3> QED
      BY <2>5, <2>6, <3>2
  <2>13. b \notin Present(e0)
    BY <1>1, <1>8, <2>1 DEF Present, Range
  <2>14. PICK s : s = h[1]
    OBVIOUS
  <2>15. StarRead(n, e0, s, g)
    BY <1>8, <1>9, <1>10, <2>1, <2>2, <2>5, <2>10, <2>12, <2>13, <2>14, StarReloaded
  <2>16. PICK e : e = s.net
    OBVIOUS
  <2>17. /\ s.ok = TRUE /\ IsNet(e)
         /\ e.kids[g] = Append(e0.kids[g], b)
         /\ \A c \in Blocks : c # g => e.kids[c] = e0.kids[c]
         /\ e.model = e0.model /\ e.flag[0] = e0.flag[0]
         /\ \A c \in Blocks, i \in Index : c # b => e.param[c][i] = e0.param[c][i]
         /\ \A i \in Index : Alike(n.param[b][i], e.param[b][i])
    BY <2>1, <2>15, <2>16 DEF StarRead
  <2>18. r = KrnVerifyParams(e, g)
    BY <1>6, <2>11, <2>14, <2>16, <2>17
  <2>19. g \in Present(e)
    BY <1>1, <1>8, <1>12, <2>17 DEF Present
  <2>20. \A i \in Index : e.param[g][i] = Renumbered(n.param[g][i], n.model[0])
    BY <1>1, <1>8, <2>1, <2>17
  <2>21. /\ r.ok = TRUE /\ Fitting(e, r.net, g, Steps(e, g))
         /\ \A i \in Index : Carried(n.param[g][i], r.net.param[g][i], n.model[0])
    <3>1. Unfitted(n, e, g)
      BY <1>9, <1>10, <2>5, <2>17, <2>19, <2>20 DEF Unfitted
    <3>2. Fitted(n, e, r, g)
      BY <2>18, <3>1, GalaxyFits
    <3> QED
      BY <3>2 DEF Fitted
  <2>22. PICK z : z = r.net
    OBVIOUS
  <2>23. /\ IsNet(z) /\ z.kids = e.kids /\ z.model = e.model
         /\ z.flag = [e.flag EXCEPT ![1] = TRUE]
         /\ \A c \in Blocks, j \in Index : c # g => Alike(e.param[c][j], z.param[c][j])
         /\ \A c \in Blocks, j \in Index : ~IsPrefix(g, c) => z.param[c][j] = e.param[c][j]
    BY <1>1, <2>21, <2>22 DEF Fitting
  <2>24. z.flag[0] = e.flag[0]
    <3>1. e.flag \in [Models -> BOOLEAN] /\ 0 \in Models
      BY <2>17, NetParts DEF Models
    <3> QED
      BY <2>23, <3>1
  <2>25. g \in Present(z)
    BY <2>19, <2>23 DEF Present
  <2>26. \A c \in Blocks : ~IsPrefix(g, c) => z.kids[c] = m.kids[c]
    BY <1>1, <1>8, <2>17, <2>23
  <2>27. \A c \in Blocks, i \in Index : ~IsPrefix(g, c) => z.param[c][i] = m.param[c][i]
    BY <1>1, <1>8, <2>1, <2>17, <2>23
  <2>28. z.kids[g] = n.kids[g]
    <3>1. Append(<<>>, b) = <<b>>
      OBVIOUS
    <3> QED
      BY <1>8, <2>2, <2>17, <2>23, <3>1
  <2>29. ASSUME NEW i \in Index
         PROVE  Alike(n.param[b][i], z.param[b][i])
    <3>1. Alike(n.param[b][i], e.param[b][i]) /\ Alike(e.param[b][i], z.param[b][i])
      BY <1>1, <2>1, <2>17, <2>23
    <3> QED
      BY <3>1, AlikeTrans
  <2>30. GalaxyAs(n, z, g)
    BY <2>1, <2>21, <2>22, <2>28, <2>29 DEF GalaxyAs
  <2> QED
    BY <1>10, <2>17, <2>21, <2>22, <2>23, <2>24, <2>25, <2>26, <2>27, <2>30 DEF GalaxyRead
<1> QED
  BY <1>13, <1>14

-----------------------------------------------------------------------------
(* The universe that is loaded from what store has written, after j lines. *)
Reloading(n, m, j) ==
    /\ IsNet(m)
    /\ m.model[0] = PrInfoArgs(n.model[0]) /\ m.flag[0] = TRUE /\ m.model[2] = StarModel
    /\ \A i \in Index : m.param[Universe][i] = PrInfoArgs(n.model[0])[i]
    /\ Len(m.kids[Universe]) = j
    /\ \A i \in 1..j : m.kids[Universe][i] = n.kids[Universe][i]
    /\ \A i \in 1..j : GalaxyAs(n, m, n.kids[Universe][i])

(* The line of a galaxy. *)
LineFor(n, line, b) ==
    line.name = Last(b) /\ line.params = PrInfoParams(n.param[b], n.model[0], Kept)

LEMMA LineTaken ==
    ASSUME NEW n, Storable(n), NEW b \in Galaxy, b \in Present(n),
           NEW m, m.model[0] = PrInfoArgs(n.model[0]),
           NEW params, params = PrInfoParams(n.param[b], n.model[0], Kept)
    PROVE  /\ params \in Seq(LineParams)
           /\ ~\E i \in DOMAIN params : LineParamRefuses(m, Universe, params[i])
<1>1. /\ b \in Blocks /\ b # Universe /\ Front(b) = Universe /\ ModelOf(b) = 1
      /\ ModelOf(Universe) = 0 /\ Universe \in Present(n)
  BY GalaxyPaths, Paths DEF Present
<1>2. PICK t : t = n.param[b]
  OBVIOUS
<1>3. b \in Range(n.kids[Universe])
  BY <1>1 DEF Present
<1>4. IsNet(n) /\ t \in [Index -> Param \cup {NULL}] /\ Contiguous(t)
  <2>1. IsNet(n) /\ Contiguous(n.param[b])
    BY <1>1, <1>3 DEF Storable, Printable
  <2> QED
    BY <1>1, <1>2, <2>1, NetFields
<1>5. params \in Seq(LineParams)
  BY <1>2, <1>4, StoredParams, KeptNumbers
<1>6. ASSUME NEW i \in DOMAIN params
      PROVE  ~LineParamRefuses(m, Universe, params[i])
  <2>1. PICK c : c = KrnParamCount(t)
    OBVIOUS
  <2>2. i \in 1..c /\ c \in Nat /\ c \in 0..MAX_PARAM /\ MAX_PARAM \in Nat
    BY <1>2, <2>1, CountBound, Indexes DEF PrInfoParams
  <2>3. PICK j : j = i - 1
    OBVIOUS
  <2>4. j \in Index /\ j < c
    BY <2>2, <2>3 DEF Index
  <2>5. PICK p : p = t[j]
    OBVIOUS
  <2>6. p # NULL
    BY <1>4, <2>1, <2>4, <2>5, ContiguousEnds
  <2>7. params[i] = IF IsBound(p) THEN [type |-> "arg", val |-> Zero, arg |-> Assoc(n.model[0], p.arg, Kept)]
                    ELSE p
    BY <1>2, <2>1, <2>2, <2>3, <2>5 DEF PrInfoParams
  <2>8. /\ n.model[1][j] # NULL /\ n.model[1][j].type = p.type
        /\ IsBound(p) => p.arg \in Index /\ n.param[Universe][p.arg] # NULL
    BY <1>1, <1>2, <2>4, <2>5, <2>6, StorableParam
  <2>9. CASE IsBound(p)
    <3>1. PICK k, a : k = p.arg /\ a = Assoc(n.model[0], k, Kept)
      OBVIOUS
    <3>2. k \in Index /\ n.param[Universe][k] # NULL
      BY <2>8, <2>9, <3>1
    <3>3. a \in Index /\ PrInfoArgs(n.model[0])[a] = n.param[Universe][k]
      BY <3>1, <3>2, UniverseNumbers
    <3>4. params[i].type = "arg" /\ params[i].arg = a
      BY <2>7, <2>9, <3>1
    <3>5. a # Unbound
      BY <3>3, Indexes
    <3> QED
      BY <1>1, <3>2, <3>3, <3>4, <3>5 DEF LineParamRefuses
  <2>10. CASE ~IsBound(p)
    <3>1. n.model[1][j] \in Default
      BY <1>4, <2>4, <2>8, NetFields DEF Models
    <3>2. p.type # "arg"
      BY <2>8, <3>1, ParamFacts DEF Types
    <3> QED
      BY <2>7, <2>10, <3>2 DEF LineParamRefuses
  <2> QED
    BY <2>9, <2>10
<1> QED
  BY <1>5, <1>6

LEMMA ReloadStep ==
    ASSUME NEW n, Storable(n), NEW j \in Nat, j < Len(n.kids[Universe]),
           NEW b \in Galaxy, b = n.kids[Universe][j + 1],
           NEW m, Reloading(n, m, j), NEW fs, fs[1] = Stored(n, b, Kept),
           NEW line, LineFor(n, line, b),
           NEW s, s = GalaxyLine(fs, Universe, Result(TRUE, m), line)
    PROVE  s.ok = TRUE /\ Reloading(n, s.net, j + 1)
<1>1. /\ b \in Blocks /\ b # Universe /\ Front(b) = Universe /\ ModelOf(b) = 1
      /\ \A c \in Blocks : IsPrefix(b, c) <=> c = b \/ c = StarIn(b)
      /\ ~IsPrefix(b, Universe) /\ Universe \in Blocks /\ IsPrefix(b, b)
      /\ StarIn(b) # Universe
  BY GalaxyPaths, Paths, PrefixOf
<1>2. PICK s0 : s0 = n.kids[Universe]
  OBVIOUS
<1>3. /\ IsNet(n) /\ s0 \in Seq(Blocks \ {Universe}) /\ IsInjective(s0)
      /\ \A c \in Range(s0) : c \in Blocks /\ c # Universe /\ Front(c) = Universe
      /\ Len(s0) \in Nat /\ DOMAIN s0 = 1..Len(s0)
  <2>1. IsNet(n)
    BY DEF Storable
  <2> QED
    BY <1>1, <1>2, <2>1, NetFields
<1>4. j + 1 \in 1..Len(s0) /\ b \in Range(s0) /\ \A i \in 1..j : i \in 1..Len(s0) /\ i # j + 1
  BY <1>2, <1>3 DEF Range
<1>5. b \in Present(n)
  BY <1>1, <1>2, <1>4 DEF Present
<1>6. \A i \in 1..j : s0[i] # b
  BY <1>2, <1>3, <1>4 DEF IsInjective
<1>7. PICK u : u = m.kids[Universe]
  OBVIOUS
<1>8. /\ IsNet(m)
      /\ m.model[0] = PrInfoArgs(n.model[0]) /\ m.flag[0] = TRUE /\ m.model[2] = StarModel
      /\ \A i \in Index : m.param[Universe][i] = PrInfoArgs(n.model[0])[i]
      /\ Len(u) = j /\ \A i \in 1..j : u[i] = s0[i]
      /\ \A i \in 1..j : GalaxyAs(n, m, s0[i])
  BY <1>2, <1>7 DEF Reloading
<1>9. u \in Seq(Blocks \ {Universe}) /\ DOMAIN u = 1..j
  <2>1. u \in Seq(Blocks \ {Universe})
    BY <1>1, <1>7, <1>8, NetFields
  <2> QED
    BY <1>8, <2>1
<1>10. b \notin Present(m) /\ Front(b) \in Present(m)
  <2>1. b \notin Range(u)
    BY <1>6, <1>8, <1>9 DEF Range
  <2> QED
    BY <1>1, <1>7, <2>1 DEF Present
<1>11. PICK params : params = line.params
  OBVIOUS
<1>12. params = PrInfoParams(n.param[b], n.model[0], Kept)
  BY <1>11 DEF LineFor
<1>13. params \in Seq(LineParams) /\ ~\E i \in DOMAIN params : LineParamRefuses(m, Universe, params[i])
  BY <1>5, <1>8, <1>12, LineTaken
<1>14. b = Append(Universe, line.name)
  <2>1. PICK names : names = Names /\ names = IF Universe = Universe THEN Names ELSE {starName}
    OBVIOUS
  <2>2. Universe \in {Universe} \cup Galaxy
    OBVIOUS
  <2>3. b = Append(Universe, Last(b))
    BY <1>1, <2>1, <2>2, ChildNames
  <2> QED
    BY <2>3 DEF LineFor
<1>15. PICK e : e = Created(m, b, params)
  OBVIOUS
<1>16. s = LoadGalaxy(fs, e, b)
  <2>1. Result(TRUE, m).ok = TRUE /\ Result(TRUE, m).net = m
    BY ResultParts
  <2> QED
    BY <1>11, <1>13, <1>14, <1>15, <2>1 DEF GalaxyLine
<1>17. CreatedIn(m, e, b)
  BY <1>1, <1>8, <1>10, <1>13, <1>15, CreatedFacts
<1>18. /\ IsNet(e) /\ b \in Present(e) /\ e.model = m.model /\ e.flag = m.flag
       /\ \A c \in Blocks : c # b => e.param[c] = m.param[c]
       /\ \A c \in Blocks : c # Universe => e.kids[c] = m.kids[c]
  BY <1>1, <1>17 DEF CreatedIn
<1>19. e.kids[Universe] = Append(u, b) /\ \A i \in Index : e.param[b][i] = Renumbered(n.param[b][i], n.model[0])
  <2>1. PICK t : t = n.param[b]
    OBVIOUS
  <2>2. Contiguous(t)
    <3>1. Universe \in Present(n)
      BY <1>1 DEF Present
    <3> QED
      BY <1>2, <1>4, <2>1, <3>1 DEF Storable, Printable
  <2>3. t \in [Index -> Param \cup {NULL}]
    BY <1>1, <1>3, <2>1, NetFields
  <2>4. LineOf(m, e, b, t, n.model[0])
    BY <1>1, <1>8, <1>12, <1>15, <2>1, <2>2, <2>3, CreatedStored
  <2> QED
    BY <1>1, <1>7, <2>1, <2>4 DEF LineOf
<1>20. GalaxyRead(n, e, s, b)
  <2>1. e.model[0] = PrInfoArgs(n.model[0]) /\ e.flag[0] = TRUE /\ e.model[2] = StarModel
    BY <1>8, <1>18
  <2> QED
    BY <1>5, <1>16, <1>18, <1>19, <2>1, GalaxyReloaded
<1>21. PICK z : z = s.net
  OBVIOUS
<1>22. /\ s.ok = TRUE /\ IsNet(z)
       /\ \A c \in Blocks : ~IsPrefix(b, c) => z.kids[c] = e.kids[c]
       /\ \A c \in Blocks, i \in Index : ~IsPrefix(b, c) => z.param[c][i] = e.param[c][i]
       /\ z.model[0] = e.model[0] /\ z.flag[0] = e.flag[0] /\ z.model[2] = e.model[2]
       /\ GalaxyAs(n, z, b)
  BY <1>20, <1>21 DEF GalaxyRead
<1>23. z.kids[Universe] = Append(u, b)
  BY <1>1, <1>19, <1>22
<1>24. Len(Append(u, b)) = j + 1 /\ \A i \in 1..(j + 1) : Append(u, b)[i] = s0[i]
  <2>1. Len(Append(u, b)) = j + 1
    BY <1>1, <1>8, <1>9
  <2>2. ASSUME NEW i \in 1..(j + 1)
        PROVE  Append(u, b)[i] = s0[i]
    <3>1. CASE i = j + 1
      BY <1>1, <1>2, <1>8, <1>9, <3>1
    <3>2. CASE i # j + 1
      <4>1. i \in 1..j
        BY <3>2
      <4> QED
        BY <1>1, <1>8, <1>9, <4>1
    <3> QED
      BY <3>1, <3>2
  <2> QED
    BY <2>1, <2>2
<1>25. \A i \in Index : z.param[Universe][i] = PrInfoArgs(n.model[0])[i]
  BY <1>1, <1>8, <1>18, <1>22
<1>26. ASSUME NEW i \in 1..(j + 1)
       PROVE  GalaxyAs(n, z, s0[i])
  <2>1. CASE i = j + 1
    BY <1>2, <1>22, <2>1
  <2>2. CASE i # j + 1
    <3>1. i \in 1..j
      BY <2>2
    <3>2. PICK g : g = s0[i]
      OBVIOUS
    <3>3. g # b /\ GalaxyAs(n, m, g)
      BY <1>6, <1>8, <3>1, <3>2
    <3>4. g \in Galaxy
      <4>1. g \in Range(s0)
        BY <1>3, <1>4, <3>1, <3>2 DEF Range
      <4>2. g \in Blocks /\ g # Universe /\ Front(g) = Universe
        BY <1>3, <4>1
      <4> QED
        BY <4>2, BlockKinds, Paths
    <3>5. /\ g \in Blocks /\ g # Universe /\ StarIn(g) \in Blocks /\ StarIn(g) # Universe
          /\ StarIn(g) # g /\ Front(StarIn(g)) = g /\ Front(g) = Universe
      BY <3>4, GalaxyPaths
    <3>6. StarIn(g) # b /\ StarIn(g) # StarIn(b) /\ g # StarIn(b)
      BY <1>1, <3>3, <3>4, <3>5, GalaxyPaths
    <3>7. ~IsPrefix(b, g) /\ ~IsPrefix(b, StarIn(g))
      BY <1>1, <3>3, <3>5, <3>6
    <3>8. z.kids[g] = m.kids[g]
      BY <1>18, <1>22, <3>5, <3>7
    <3>9. \A k \in Index : z.param[g][k] = m.param[g][k] /\ z.param[StarIn(g)][k] = m.param[StarIn(g)][k]
      BY <1>18, <1>22, <3>3, <3>5, <3>6, <3>7
    <3>10. GalaxyAs(n, z, g)
      BY <3>3, <3>8, <3>9 DEF GalaxyAs
    <3> QED
      BY <3>2, <3>10
  <2> QED
    BY <2>1, <2>2
<1>27. z.model[0] = PrInfoArgs(n.model[0]) /\ z.flag[0] = TRUE /\ z.model[2] = StarModel
  BY <1>8, <1>18, <1>22
<1>28. Reloading(n, z, j + 1)
  BY <1>2, <1>22, <1>23, <1>24, <1>25, <1>26, <1>27 DEF Reloading
<1> QED
  BY <1>21, <1>22, <1>28

Reread(n, s, j) == s.ok = TRUE /\ Reloading(n, s.net, j)

LEMMA ReloadNext ==
    ASSUME NEW n, Storable(n), NEW j \in Nat, j < Len(n.kids[Universe]),
           NEW b \in Galaxy, b = n.kids[Universe][j + 1],
           NEW m, Reloading(n, m, j), NEW fs, fs[1] = Stored(n, b, Kept),
           NEW line, LineFor(n, line, b),
           NEW s, s = GalaxyLine(fs, Universe, Result(TRUE, m), line)
    PROVE  Reread(n, s, j + 1)
BY ReloadStep DEF Reread

(* The files store writes for a net that is not empty. *)
FilesOf(n, fs) ==
    /\ AreFiles(fs)
    /\ fs[0] = Stored(n, Universe, Kept)
    /\ \A g \in Range(n.kids[Universe]) : fs[1] = Stored(n, g, Kept)

LEMMA UniverseKids ==
    ASSUME NEW n, IsNet(n), NEW s, s = n.kids[Universe]
    PROVE  /\ s \in Seq(Blocks \ {Universe}) /\ IsInjective(s)
           /\ Len(s) \in Nat /\ DOMAIN s = 1..Len(s)
           /\ \A c \in Range(s) : c \in Galaxy /\ c \in Present(n)
           /\ \A i \in 1..Len(s) : s[i] \in Range(s) /\ s[i] \in Galaxy
           /\ \A g \in Galaxy : g \in Present(n) => g \in Range(s)
<1>1. Universe \in Blocks
  BY Paths
<1>2. /\ s \in Seq(Blocks \ {Universe}) /\ IsInjective(s)
      /\ \A c \in Range(s) : c \in Blocks /\ c # Universe /\ Front(c) = Universe
  BY <1>1, NetFields
<1>3. Len(s) \in Nat /\ DOMAIN s = 1..Len(s)
  BY <1>2
<1>4. ASSUME NEW c \in Range(s)
      PROVE  c \in Galaxy /\ c \in Present(n)
  <2>1. c \in Blocks /\ c # Universe /\ Front(c) = Universe
    BY <1>2
  <2> QED
    BY <2>1, BlockKinds, Paths DEF Present
<1>5. \A i \in 1..Len(s) : s[i] \in Range(s)
  BY <1>3 DEF Range
<1>6. \A g \in Galaxy : g \in Present(n) => g \in Range(s)
  BY Paths DEF Present
<1> QED
  BY <1>2, <1>3, <1>4, <1>5, <1>6

LEMMA ReloadStart ==
    ASSUME NEW n, Storable(n), n.kids[Universe] # <<>>, NEW fs, FilesOf(n, fs),
           NEW m, m = Emptied(fs[0], n, Universe)
    PROVE  Reloading(n, m, 0)
<1>1. PICK f : f = fs[0]
  OBVIOUS
<1>2. IsFile(f, Names) /\ f = Stored(n, Universe, Kept)
  BY <1>1 DEF FilesOf, AreFiles
<1>3. IsNet(n) /\ n.model[2] = StarModel
  BY DEF Storable, StarsHave
<1>4. Universe \in Blocks /\ Universe \in Present(n) /\ ModelOf(Universe) = 0
  BY Paths DEF Present
<1>5. f.declared = TRUE /\ f.args = PrInfoArgs(n.model[0])
  BY <1>2, <1>4 DEF Stored
<1>6. /\ IsNet(m) /\ m.kids[Universe] = <<>>
      /\ \A k \in Models : k # 0 => m.model[k] = n.model[k]
  BY <1>1, <1>2, <1>3, <1>4, EmptiedFacts
<1>7. m.model[2] = StarModel
  BY <1>3, <1>6 DEF Models
<1>8. m.model[0] = f.args /\ m.flag[0] = f.declared /\ m.param[Universe] = f.args
  <2>1. EmptiedOwnIn(f, m, Universe)
    BY <1>1, <1>3, <1>4, EmptiedOwn
  <2> QED
    BY <1>4, <2>1 DEF EmptiedOwnIn
<1>9. Len(m.kids[Universe]) = 0
  BY <1>6
<1> QED
  BY <1>5, <1>6, <1>7, <1>8, <1>9 DEF Reloading

LEMMA ReloadLoop ==
    ASSUME NEW n, Storable(n), n.kids[Universe] # <<>>, NEW fs, FilesOf(n, fs),
           NEW f, f = fs[0], NEW N, N = Len(f.blocks), NEW h, GalaxiesRead(h, fs, f, n, Universe, N)
    PROVE  N = Len(n.kids[Universe]) /\ \A j \in 0..N : h[j].ok = TRUE /\ Reloading(n, h[j].net, j)
<1> DEFINE T == {j \in 0..N : h[j].ok = TRUE /\ Reloading(n, h[j].net, j)}
<1>1. PICK s0 : s0 = n.kids[Universe]
  OBVIOUS
<1>2. IsNet(n) /\ Universe \in {Universe} \cup Galaxy /\ ModelOf(Universe) = 0
  BY Paths DEF Storable
<1>3. /\ Len(s0) \in Nat /\ DOMAIN s0 = 1..Len(s0)
      /\ \A i \in 1..Len(s0) : s0[i] \in Range(s0) /\ s0[i] \in Galaxy
  BY <1>1, <1>2, UniverseKids
<1>4. PICK bs : bs = [j \in DOMAIN s0 |->
                        [name |-> Last(s0[j]), params |-> PrInfoParams(n.param[s0[j]], n.model[0], Kept)]]
  OBVIOUS
<1>5. f.blocks = bs
  <2>1. f = Stored(n, Universe, Kept)
    BY DEF FilesOf
  <2>2. f = [declared |-> TRUE, args |-> PrInfoArgs(n.model[0]), blocks |-> bs]
    BY <1>1, <1>2, <1>4, <2>1 DEF Stored
  <2> QED
    BY <2>2
<1>6. N = Len(s0) /\ N \in Nat
  BY <1>3, <1>4, <1>5
<1>7. \A j \in 0..N : h[j] = IF j = 0 THEN Result(TRUE, Emptied(f, n, Universe))
                             ELSE GalaxyLine(fs, Universe, h[j - 1], f.blocks[j])
  BY DEF GalaxiesRead
<1>8. 0 \in T
  <2>1. 0 \in 0..N
    BY <1>6
  <2>2. PICK m : m = Emptied(f, n, Universe)
    OBVIOUS
  <2>3. h[0] = Result(TRUE, m)
    BY <1>7, <2>1, <2>2
  <2>4. Result(TRUE, m).ok = TRUE /\ Result(TRUE, m).net = m
    BY ResultParts
  <2>5. Reloading(n, m, 0)
    BY <2>2, ReloadStart
  <2> QED
    BY <2>1, <2>3, <2>4, <2>5
<1>9. ASSUME NEW j \in 0..(N - 1), j \in T
      PROVE  j + 1 \in T
  <2>1. j \in 0..N /\ j + 1 \in 0..N /\ j + 1 # 0 /\ (j + 1) - 1 = j /\ j + 1 \in 1..Len(s0) /\ j \in Nat
        /\ j < Len(s0)
    BY <1>6
  <2>2. h[j + 1] = GalaxyLine(fs, Universe, h[j], f.blocks[j + 1])
    BY <1>7, <2>1
  <2>3. PICK r, s, line, m, b : r = h[j] /\ s = h[j + 1] /\ line = bs[j + 1] /\ m = r.net /\ b = s0[j + 1]
    OBVIOUS
  <2>4. r.ok = TRUE /\ Reloading(n, m, j)
    BY <1>9, <2>3
  <2>5. s = GalaxyLine(fs, Universe, Result(TRUE, m), line)
    BY <1>5, <2>2, <2>3, <2>4 DEF GalaxyLine, Result
  <2>6. LineFor(n, line, b)
    <3>1. line = [name |-> Last(b), params |-> PrInfoParams(n.param[b], n.model[0], Kept)]
      BY <1>3, <1>4, <2>1, <2>3
    <3> QED
      BY <3>1 DEF LineFor
  <2>7. b \in Galaxy /\ b \in Range(s0)
    BY <1>3, <2>1, <2>3
  <2>8. fs[1] = Stored(n, b, Kept)
    BY <1>1, <2>7 DEF FilesOf
  <2>9. s.ok = TRUE /\ Reloading(n, s.net, j + 1)
    <3>1. j \in Nat /\ j < Len(n.kids[Universe]) /\ b = n.kids[Universe][j + 1] /\ b \in Galaxy
      BY <1>1, <2>1, <2>3, <2>7
    <3>2. Reloading(n, m, j)
      BY <2>4
    <3>3. Reread(n, s, j + 1)
      BY <2>5, <2>6, <2>8, <3>1, <3>2, ReloadNext
    <3> QED
      BY <3>3 DEF Reread
  <2> QED
    BY <2>1, <2>3, <2>9
<1> HIDE DEF T
<1>10. 0..N \subseteq T
  BY <1>6, <1>8, <1>9, AllUpTo
<1> QED
  BY <1>1, <1>6, <1>10 DEF T

(* What is left when the universe has been verified, too. *)
Reloaded(n, z) ==
    /\ IsNet(z) /\ Apart(z) = {}
    /\ z.kids[Universe] = n.kids[Universe]
    /\ \A i \in Index : n.param[Universe][i] # NULL =>
          LET a == Assoc(n.model[0], i, Kept)
          IN /\ a \in Index /\ z.param[Universe][a] # NULL
             /\ z.param[Universe][a].type = n.param[Universe][i].type
             /\ z.param[Universe][a].val = n.param[Universe][i].val
    /\ \A g \in Range(n.kids[Universe]) :
          /\ z.kids[g] = n.kids[g]
          /\ n.kids[g] # <<>> =>
                \A i \in Index : /\ Alike(n.param[StarIn(g)][i], z.param[StarIn(g)][i])
                                 /\ Carried(n.param[g][i], z.param[g][i], n.model[0])

LEMMA CarriedOn ==
    ASSUME NEW p, NEW q, NEW r, NEW args, Carried(p, q, args), Alike(q, r)
    PROVE  Carried(p, r, args)
BY DEF Carried, Alike, IsBound

LEMMA UniverseVerified ==
    ASSUME NEW n, Storable(n), NEW N \in Nat, N = Len(n.kids[Universe]), NEW e, Reloading(n, e, N),
           NEW r, r = KrnVerifyParams(e, Universe), UniverseLoaded(r)
    PROVE  r.ok = TRUE /\ Reloaded(n, r.net)
<1>1. PICK s0 : s0 = n.kids[Universe]
  OBVIOUS
<1>2. /\ IsNet(n) /\ s0 \in Seq(Blocks \ {Universe}) /\ DOMAIN s0 = 1..N
      /\ \A g \in Range(s0) : g \in Galaxy
      /\ Len(s0) = N
  <2>1. IsNet(n)
    BY DEF Storable
  <2> QED
    BY <1>1, <2>1, UniverseKids
<1>3. /\ Universe \in Blocks /\ ModelOf(Universe) = 0 /\ Universe \in Present(e) /\ Universe \in Present(n)
      /\ 0 \in Models
  BY Paths DEF Present, Models
<1>4. /\ IsNet(e) /\ e.model[0] = PrInfoArgs(n.model[0])
      /\ \A i \in Index : e.param[Universe][i] = e.model[0][i]
      /\ \A i \in 1..N : e.kids[Universe][i] = s0[i]
      /\ Len(e.kids[Universe]) = N
      /\ \A i \in 1..N : GalaxyAs(n, e, s0[i])
  BY <1>1 DEF Reloading
<1>5. PICK t : t = e.model[0]
  OBVIOUS
<1>6. Contiguous(t) /\ \A i \in Index : t[i] \in Default \cup {NULL}
  BY <1>3, <1>4, <1>5, StoredContiguous, NetFields
<1>7. AllFit(e, Universe)
  <2>1. ASSUME NEW i \in Index, i < Steps(e, Universe)
        PROVE  Fits(e, Universe, i)
    <3>1. t[i] # NULL /\ t[i] \in Default
      BY <1>3, <1>5, <1>6, <2>1, ContiguousEnds DEF Steps
    <3>2. ~IsBound(t[i])
      BY <3>1, ParamFacts
    <3> QED
      BY <1>3, <1>4, <1>5, <3>1, <3>2 DEF Fits
  <2> QED
    BY <1>3, <1>5, <1>6, <2>1 DEF AllFit
<1>8. ~Creates(e, Universe)
  BY DEF Creates
<1>9. r.ok = TRUE /\ Fitting(e, r.net, Universe, Steps(e, Universe))
  BY <1>3, <1>4, <1>7, <1>8, VerifyFits
<1>10. PICK z : z = r.net
  OBVIOUS
<1>11. /\ IsNet(z) /\ z.kids = e.kids
       /\ \A c \in Blocks, j \in Index : c # Universe => Alike(e.param[c][j], z.param[c][j])
       /\ \A j \in Index : j < Steps(e, Universe) => Filled(t[j], z.param[Universe][j], t[j])
  BY <1>3, <1>4, <1>5, <1>9, <1>10 DEF Fitting
<1>12. z.kids[Universe] = s0
  <2>1. PICK u : u = z.kids[Universe]
    OBVIOUS
  <2>2. u \in Seq(Blocks \ {Universe}) /\ Len(u) = N /\ \A i \in 1..N : u[i] = s0[i]
    BY <1>3, <1>4, <1>11, <2>1, NetFields
  <2>3. u = [i \in 1..N |-> u[i]] /\ s0 = [i \in 1..N |-> s0[i]]
    BY <1>2, <2>2
  <2> QED
    BY <2>1, <2>2, <2>3
<1>13. ASSUME NEW i \in Index, NEW R, R = n.param[Universe][i], R # NULL, NEW a, a = Assoc(n.model[0], i, Kept)
       PROVE  /\ a \in Index /\ z.param[Universe][a] # NULL
              /\ z.param[Universe][a].type = R.type
              /\ z.param[Universe][a].val = R.val
  <2>1. a \in Index /\ t[a] = R
    BY <1>4, <1>5, <1>13, UniverseNumbers
  <2>2. a < Steps(e, Universe)
    BY <1>3, <1>5, <1>6, <1>13, <2>1, ContiguousEnds DEF Steps
  <2>3. t[a] \in Default /\ ~IsBound(t[a])
    BY <1>6, <1>13, <2>1, ParamFacts
  <2>4. PICK v : v = z.param[Universe][a]
    OBVIOUS
  <2>5. Filled(t[a], v, t[a])
    BY <1>11, <2>1, <2>2, <2>4
  <2>6. v # NULL /\ v.type = R.type /\ v.val = R.val
    BY <1>13, <2>1, <2>3, <2>5 DEF Filled
  <2> QED
    BY <2>1, <2>4, <2>6
<1>14. ASSUME NEW g \in Range(s0)
       PROVE  /\ z.kids[g] = n.kids[g]
              /\ n.kids[g] # <<>> =>
                    \A i \in Index : /\ Alike(n.param[StarIn(g)][i], z.param[StarIn(g)][i])
                                     /\ Carried(n.param[g][i], z.param[g][i], n.model[0])
  <2>1. GalaxyAs(n, e, g)
    <3>1. PICK i \in 1..N : g = s0[i]
      BY <1>2, <1>14 DEF Range
    <3> QED
      BY <1>4, <3>1
  <2>2. g \in Galaxy
    BY <1>2
  <2>3. g \in Blocks /\ g # Universe /\ StarIn(g) \in Blocks /\ StarIn(g) # Universe
    BY <2>2, GalaxyPaths
  <2>4. ASSUME NEW i \in Index, n.kids[g] # <<>>
        PROVE  /\ Alike(n.param[StarIn(g)][i], z.param[StarIn(g)][i])
               /\ Carried(n.param[g][i], z.param[g][i], n.model[0])
    <3>1. Alike(n.param[StarIn(g)][i], e.param[StarIn(g)][i]) /\ Carried(n.param[g][i], e.param[g][i], n.model[0])
      BY <2>1, <2>4 DEF GalaxyAs
    <3>2. Alike(e.param[StarIn(g)][i], z.param[StarIn(g)][i]) /\ Alike(e.param[g][i], z.param[g][i])
      BY <1>11, <2>3
    <3> QED
      BY <3>1, <3>2, AlikeTrans, CarriedOn
  <2> QED
    BY <1>11, <2>1, <2>4 DEF GalaxyAs
<1>15. Reloaded(n, z)
  BY <1>1, <1>9, <1>10, <1>11, <1>12, <1>13, <1>14 DEF Reloaded, UniverseLoaded
<1> QED
  BY <1>9, <1>10, <1>15

LEMMA KidsSame ==
    ASSUME NEW n, IsNet(n), NEW z, IsNet(z), z.kids[Universe] = n.kids[Universe],
           \A g \in Range(n.kids[Universe]) : z.kids[g] = n.kids[g]
    PROVE  z.kids = n.kids
<1>1. ASSUME NEW m, IsNet(m), NEW b \in Star
      PROVE  m.kids[b] = <<>>
  <2>1. b \in Blocks /\ b \notin Galaxy /\ b # Universe
    BY BlockKinds
  <2>2. PICK s : s = m.kids[b]
    OBVIOUS
  <2>3. s \in Seq(Blocks \ {Universe}) /\ \A c \in Range(s) : c \in Blocks /\ Front(c) = b
    BY <1>1, <2>1, <2>2, NetFields
  <2>4. \A c \in Range(s) : FALSE
    BY <2>1, <2>3, BlockKinds
  <2>5. s = <<>>
    <3>1. Len(s) = 0
      <4>1. Len(s) \in Nat /\ DOMAIN s = 1..Len(s)
        BY <2>3
      <4>2. 1 \notin DOMAIN s
        BY <2>4 DEF Range
      <4> QED
        BY <4>1, <4>2
    <3> QED
      BY <2>3, <3>1
  <2> QED
    BY <2>2, <2>5
<1>2. ASSUME NEW m, IsNet(m), NEW g \in Galaxy, g \notin Range(m.kids[Universe])
      PROVE  m.kids[g] = <<>>
  <2>1. g \in Blocks /\ g # Universe /\ Front(g) = Universe
    BY Paths
  <2>2. g \notin Present(m)
    BY <1>2, <2>1 DEF Present
  <2> QED
    BY <1>2, <2>1, <2>2, NetFields
<1>3. ASSUME NEW b \in Blocks
      PROVE  z.kids[b] = n.kids[b]
  <2>1. CASE b = Universe
    BY <2>1
  <2>2. CASE b \in Star
    BY <1>1, <2>2
  <2>3. CASE b \in Galaxy /\ b \in Range(n.kids[Universe])
    BY <2>3
  <2>4. CASE b \in Galaxy /\ b \notin Range(n.kids[Universe])
    <3>1. z.kids[b] = <<>>
      BY <1>2, <2>4
    <3>2. n.kids[b] = <<>>
      BY <1>2, <2>4
    <3> QED
      BY <3>1, <3>2
  <2> QED
    BY <2>1, <2>2, <2>3, <2>4, BlockKinds
<1>4. z.kids \in [Blocks -> Seq(Blocks \ {Universe})] /\ n.kids \in [Blocks -> Seq(Blocks \ {Universe})]
  BY NetParts
<1> QED
  BY <1>3, <1>4

(* Parameter i of the star of g before it is stored, and after the load. *)
StarAs(n, z, g, i) ==
    LET p == n.param[StarIn(g)][i]
        q == z.param[StarIn(g)][i]
    IN /\ (p = NULL) = (q = NULL)
       /\ p # NULL => q.type = p.type /\ q.val = p.val /\ IsBound(p) = IsBound(q)

LEMMA SameValue ==
    ASSUME NEW z, Apart(z) = {}, NEW b \in Blocks, b # Universe, NEW i \in Index,
           NEW q, q = z.param[b][i], IsBound(q), NEW Q, Q = z.param[Front(b)][q.arg],
           Q # NULL, Q.type = q.type
    PROVE  Q.val = q.val
<1>1. PICK x : x = <<b, i>>
  OBVIOUS
<1>2. x[1] = b /\ x[2] = i
  BY <1>1
<1>3. x \in Bindings(z)
  BY <1>1, <1>2 DEF Bindings
<1>4. Given(z, x) = Q
  BY <1>2 DEF Given
<1> QED
  BY <1>2, <1>3, <1>4 DEF Apart

LEMMA StarKept ==
    ASSUME NEW n, Storable(n), NEW z, Reloaded(n, z), NEW g \in Range(n.kids[Universe]), g \in Galaxy,
           NEW i \in Index
    PROVE  StarAs(n, z, g, i)
<1>1. PICK b : b = StarIn(g)
  OBVIOUS
<1>2. /\ g \in Blocks /\ g # Universe /\ Front(g) = Universe /\ ModelOf(g) = 1
      /\ b \in Blocks /\ b # Universe /\ Front(b) = g
  BY <1>1, GalaxyPaths
<1>3. /\ IsNet(n) /\ g \in Present(n) /\ IsNet(z) /\ Apart(z) = {}
      /\ z.kids[g] = n.kids[g]
  BY <1>2 DEF Storable, Present, Reloaded
<1>4. PICK p, q : p = n.param[b][i] /\ q = z.param[b][i]
  OBVIOUS
<1>5. CASE n.kids[g] = <<>>
  <2>1. ASSUME NEW m, IsNet(m), m.kids[g] = <<>>
        PROVE  m.param[b][i] = NULL
    <3>1. b \notin Present(m)
      BY <1>2, <2>1 DEF Present, Range
    <3>2. m.param[b] = None
      BY <1>2, <2>1, <3>1, NetFields
    <3> QED
      BY <3>2 DEF None
  <2>2. p = NULL
    BY <1>3, <1>4, <1>5, <2>1
  <2>3. q = NULL
    BY <1>3, <1>4, <1>5, <2>1
  <2> QED
    BY <1>1, <1>4, <2>2, <2>3 DEF StarAs
<1>6. CASE n.kids[g] # <<>>
  <2>1. b \in Present(n)
    BY <1>1, <1>3, <1>6, OneStar
  <2>2. Alike(p, q)
    BY <1>1, <1>4, <1>6 DEF Reloaded
  <2>3. p = NULL \/ ~IsBound(p) => StarAs(n, z, g, i)
    BY <1>1, <1>4, <2>2 DEF StarAs, Alike, IsBound
  <2>4. ASSUME IsBound(p)
        PROVE  StarAs(n, z, g, i)
    <3>1. p # NULL
      BY <2>4 DEF IsBound
    <3>2. PICK k, P, Q : k = p.arg /\ P = n.param[g][k] /\ Q = z.param[g][k]
      OBVIOUS
    <3>3. k \in Index /\ P # NULL /\ P.type = p.type /\ P.val = p.val
      BY <1>2, <1>4, <2>1, <2>4, <3>1, <3>2, StorableParam
    <3>4. q # NULL /\ q.type = p.type /\ q.arg = k /\ IsBound(q)
      BY <2>2, <2>4, <3>1, <3>2 DEF Alike, IsBound
    <3>5. Carried(P, Q, n.model[0])
      BY <1>6, <3>2, <3>3 DEF Reloaded
    <3>6. Q # NULL /\ Q.type = P.type
      BY <3>3, <3>5 DEF Carried
    <3>7. Q.val = q.val
      <4>1. Front(b) = g /\ Q = z.param[Front(b)][q.arg]
        BY <1>2, <3>2, <3>4
      <4>2. q = z.param[b][i] /\ IsBound(q) /\ Q # NULL /\ Q.type = q.type
        BY <1>4, <3>3, <3>4, <3>6
      <4> QED
        BY <1>2, <1>3, <4>1, <4>2, SameValue
    <3>8. Q.val = P.val
      <4>1. CASE ~IsBound(P)
        BY <3>3, <3>5, <4>1 DEF Carried
      <4>2. CASE IsBound(P)
        <5>1. PICK l, R : l = P.arg /\ R = n.param[Universe][l]
          OBVIOUS
        <5>2. l \in Index /\ R # NULL /\ R.type = P.type /\ R.val = P.val
          BY <1>2, <1>3, <3>2, <3>3, <4>2, <5>1, StorableParam
        <5>3. PICK a, S : a = Assoc(n.model[0], l, Kept) /\ S = z.param[Universe][a]
          OBVIOUS
        <5>4. a \in Index /\ S # NULL /\ S.type = R.type /\ S.val = R.val
          BY <5>1, <5>2, <5>3 DEF Reloaded
        <5>5. Q.arg = a
          BY <3>3, <3>5, <4>2, <5>1, <5>3 DEF Carried
        <5>6. IsBound(Q)
          BY <3>6, <5>4, <5>5, Indexes DEF IsBound
        <5>7. S.val = Q.val
          <6>1. S = z.param[Front(g)][Q.arg] /\ S # NULL /\ S.type = Q.type
            BY <1>2, <3>6, <5>2, <5>3, <5>4, <5>5
          <6>2. g \in Blocks /\ g # Universe /\ k \in Index /\ Q = z.param[g][k] /\ Apart(z) = {}
            BY <1>2, <1>3, <3>2, <3>3
          <6> QED
            BY <5>6, <6>1, <6>2, SameValue
        <5> QED
          BY <5>2, <5>4, <5>7
      <4> QED
        BY <4>1, <4>2
    <3> QED
      BY <1>1, <1>4, <2>4, <3>1, <3>3, <3>4, <3>7, <3>8 DEF StarAs
  <2> QED
    BY <2>3, <2>4 DEF IsBound
<1> QED
  BY <1>5, <1>6

(* Storing all and loading it. *)
StoresAll(n, fs) ==
    /\ AreFiles(fs)
    /\ fs[0] = Stored(n, Universe, Kept)
    /\ n.kids[Universe] # <<>> => FilesOf(n, fs)

LEMMA AllStored ==
    ASSUME AreFiles(file), NEW n, Storable(n), OfOneFile(n), NEW fs, fs = StoredAll(n)
    PROVE  StoresAll(n, fs)
<1>1. PICK s, gs : s = n.kids[Universe] /\ gs = Range(s)
  OBVIOUS
<1>2. /\ IsNet(n) /\ Universe \in Present(n)
      /\ \A g \in Present(n) : g \in {Universe} \cup Galaxy => Printable(n, g)
  BY Paths DEF Storable, Present
<1>3. /\ Len(s) \in Nat
      /\ \A c \in gs : c \in Galaxy /\ c \in Present(n)
      /\ \A i \in 1..Len(s) : s[i] \in gs
      /\ s \in Seq(Blocks \ {Universe})
  BY <1>1, <1>2, UniverseKids
<1>4. PICK x : x = CHOOSE g \in gs : TRUE
  OBVIOUS
<1>5. PICK f : f = IF gs = {} THEN file[1] ELSE Stored(n, x, Kept)
  OBVIOUS
<1>6. /\ fs = [m \in 0..1 |-> IF m = 0 THEN Stored(n, Universe, Kept) ELSE f]
  BY <1>1, <1>4, <1>5 DEF StoredAll
<1>7. DOMAIN fs = 0..1 /\ fs[0] = Stored(n, Universe, Kept) /\ fs[1] = f
  BY <1>6
<1>8. IsFile(fs[0], Names)
  <2>1. PICK names : names = Names /\ names = IF Universe = Universe THEN Names ELSE {starName}
    OBVIOUS
  <2>2. Universe \in {Universe} \cup Galaxy /\ Printable(n, Universe)
    BY <1>2
  <2>3. IsFile(Stored(n, Universe, Kept), names)
    BY <1>2, <2>1, <2>2, StoredFile, KeptNumbers
  <2> QED
    BY <1>7, <2>1, <2>3
<1>9. ASSUME gs # {}
      PROVE  x \in gs /\ x \in Galaxy /\ x \in Present(n)
  BY <1>3, <1>4, <1>9
<1>10. IsFile(fs[1], {starName})
  <2>1. CASE gs = {}
    BY <1>5, <1>7, <2>1 DEF AreFiles
  <2>2. CASE gs # {}
    <3>1. x \in Galaxy /\ x # Universe /\ x \in Present(n)
      BY <1>9, <2>2, Paths
    <3>2. PICK names : names = {starName} /\ names = IF x = Universe THEN Names ELSE {starName}
      BY <3>1
    <3>3. x \in {Universe} \cup Galaxy /\ Printable(n, x)
      BY <1>2, <3>1
    <3>4. IsFile(Stored(n, x, Kept), names)
      BY <1>2, <3>2, <3>3, StoredFile, KeptNumbers
    <3> QED
      BY <1>5, <1>7, <2>2, <3>2, <3>4
  <2> QED
    BY <2>1, <2>2
<1>11. ASSUME s # <<>>
       PROVE  \A g \in gs : fs[1] = Stored(n, g, Kept)
  <2>1. gs # {}
    <3>1. Len(s) # 0
      BY <1>3, <1>11
    <3> QED
      BY <1>3, <3>1
  <2>2. fs[1] = Stored(n, x, Kept) /\ x \in gs
    BY <1>5, <1>7, <1>9, <2>1
  <2> QED
    BY <1>1, <2>2 DEF OfOneFile
<1> QED
  BY <1>1, <1>7, <1>8, <1>10, <1>11 DEF StoresAll, AreFiles, FilesOf

Returned(n, r) ==
    /\ r.ok = TRUE /\ IsNet(r.net) /\ r.net.kids = n.kids
    /\ \A g \in Range(n.kids[Universe]), i \in Index : StarAs(n, r.net, g, i)

LEMMA LoadReturns ==
    ASSUME NEW n, Storable(n), NEW fs, StoresAll(n, fs), NEW r, r = LineLoad(fs, n, Universe)
    PROVE  Returned(n, r)
<1>1. PICK f, N : f = fs[0] /\ N = Len(f.blocks)
  OBVIOUS
<1>2. IsFile(f, Names) /\ AreFiles(fs) /\ N \in Nat /\ f = Stored(n, Universe, Kept)
  BY <1>1 DEF StoresAll, AreFiles, IsFile
<1>3. PICK h : /\ GalaxiesRead(h, fs, f, n, Universe, N)
               /\ r = IF h[N].ok THEN KrnVerifyParams(h[N].net, Universe)
                      ELSE Result(FALSE, RemoveChildren(h[N].net, Universe))
  <2>1. GalaxiesLoaded(r, fs, f, n, Universe, N)
    BY <1>1, <1>2, GalaxiesReadRun
  <2> QED
    BY <2>1 DEF GalaxiesLoaded
<1>4. IsNet(n) /\ UniverseLoaded(r)
  <2>1. IsNet(n)
    BY DEF Storable
  <2> QED
    BY <1>2, <2>1, UniverseFacts
<1>5. Universe \in Blocks /\ Universe \in Present(n) /\ ModelOf(Universe) = 0
  BY Paths DEF Present
<1>6. CASE n.kids[Universe] = <<>>
  <2>1. f = [declared |-> FALSE, args |-> None, blocks |-> <<>>]
    BY <1>2, <1>6 DEF Stored
  <2>2. f.blocks = <<>> /\ f.args = None
    BY <2>1
  <2>3. N = 0
    BY <1>1, <2>2
  <2>4. PICK e : e = Emptied(f, n, Universe)
    OBVIOUS
  <2>5. h[0].ok = TRUE /\ h[0].net = e
    <3>1. h[0] = Result(TRUE, e)
      BY <1>3, <2>3, <2>4 DEF GalaxiesRead
    <3>2. Result(TRUE, e).ok = TRUE /\ Result(TRUE, e).net = e
      BY ResultParts
    <3> QED
      BY <3>1, <3>2
  <2>6. r = KrnVerifyParams(e, Universe)
    BY <1>3, <2>3, <2>5
  <2>7. IsNet(e) /\ Universe \in Present(e) /\ e.kids[Universe] = <<>>
    BY <1>2, <1>4, <1>5, <2>4, EmptiedFacts
  <2>8. e.model[0] = None
    <3>1. EmptiedOwnIn(f, e, Universe)
      BY <1>4, <1>5, <2>4, EmptiedOwn
    <3> QED
      BY <1>5, <2>2, <3>1 DEF EmptiedOwnIn
  <2>9. AllFit(e, Universe)
    BY <1>5, <2>8, NoneContiguous DEF AllFit, Steps
  <2>10. ~Creates(e, Universe)
    BY DEF Creates
  <2>11. r.ok = TRUE /\ Fitting(e, r.net, Universe, Steps(e, Universe))
    BY <2>6, <2>7, <2>9, <2>10, VerifyFits
  <2>12. PICK z : z = r.net
    OBVIOUS
  <2>13. IsNet(z) /\ z.kids[Universe] = <<>>
    BY <2>7, <2>11, <2>12 DEF Fitting
  <2>14. Range(n.kids[Universe]) = {}
    BY <1>6 DEF Range
  <2>15. z.kids = n.kids
    BY <1>4, <1>6, <2>13, <2>14, KidsSame
  <2> QED
    BY <2>11, <2>12, <2>13, <2>14, <2>15 DEF Returned
<1>7. CASE n.kids[Universe] # <<>>
  <2>1. FilesOf(n, fs)
    BY <1>7 DEF StoresAll
  <2>2. N = Len(n.kids[Universe]) /\ \A j \in 0..N : h[j].ok = TRUE /\ Reloading(n, h[j].net, j)
    BY <1>1, <1>3, <1>7, <2>1, ReloadLoop
  <2>3. PICK e : e = h[N].net
    OBVIOUS
  <2>4. h[N].ok = TRUE /\ Reloading(n, e, N)
    BY <1>2, <2>2, <2>3
  <2>5. r = KrnVerifyParams(e, Universe)
    BY <1>3, <2>3, <2>4
  <2>6. r.ok = TRUE /\ Reloaded(n, r.net)
    BY <1>2, <1>4, <2>2, <2>4, <2>5, UniverseVerified
  <2>7. PICK z : z = r.net
    OBVIOUS
  <2>8. /\ Reloaded(n, z) /\ IsNet(z) /\ z.kids[Universe] = n.kids[Universe]
        /\ \A g \in Range(n.kids[Universe]) : z.kids[g] = n.kids[g]
    BY <2>6, <2>7 DEF Reloaded
  <2>9. z.kids = n.kids
    BY <1>4, <2>8, KidsSame
  <2>10. \A g \in Range(n.kids[Universe]) : g \in Galaxy
    <3>1. PICK s : s = n.kids[Universe]
      OBVIOUS
    <3>2. \A g \in Range(s) : g \in Galaxy
      BY <1>4, <3>1, UniverseKids
    <3> QED
      BY <3>1, <3>2
  <2>11. \A g \in Range(n.kids[Universe]), i \in Index : StarAs(n, z, g, i)
    BY <2>8, <2>10, StarKept
  <2> QED
    BY <2>6, <2>7, <2>8, <2>9, <2>11 DEF Returned
<1> QED
  BY <1>6, <1>7

LEMMA LoadedBack ==
    ASSUME IsNet(net), AreFiles(file), StarsHave(net)
    PROVE  LoadedAsStored
<1> SUFFICES ASSUME Consistent(net), OfOneFile(net), \A g \in Selectable : Printable(net, g),
                    NEW r, r = LineLoad(StoredAll(net), net, Universe)
             PROVE  /\ r.ok
                    /\ r.net.kids = net.kids
                    /\ \A g \in Selectable : \A i \in Index : g # Universe => StarAs(net, r.net, g, i)
  BY DEF LoadedAsStored, StarAs
<1>1. Storable(net)
  BY DEF Storable, Selectable
<1>2. StoresAll(net, StoredAll(net))
  BY <1>1, AllStored
<1>3. Returned(net, r)
  BY <1>1, <1>2, LoadReturns
<1>4. \A g \in Selectable : g # Universe => g \in Range(net.kids[Universe])
  BY Paths DEF Selectable, Present
<1> QED
  BY <1>3, <1>4 DEF Returned

-----------------------------------------------------------------------------
(* Whatever the commands do, a star in the tree has its parameter: the     *)
(* model of the stars never changes, and only the star that is being       *)
(* verified may be without.                                                *)

StarsBut(n, b) ==
    /\ n.model[2] = StarModel
    /\ \A g \in Galaxy : StarIn(g) # b /\ StarIn(g) \in Range(n.kids[g]) => n.param[StarIn(g)][0] # NULL

LEMMA StarsAll ==
    ASSUME NEW n
    PROVE  /\ \A b : StarsHave(n) => StarsBut(n, b)
           /\ \A b : b \notin Star /\ StarsBut(n, b) => StarsHave(n)
           /\ \A b : StarsBut(n, b) /\ n.param[b][0] # NULL => StarsHave(n)
BY DEF StarsHave, StarsBut, Star

LEMMA StarsPropagated ==
    ASSUME NEW n, IsNet(n), NEW g \in Blocks, NEW k \in Index, NEW m, m = propagate_arg(n, g, k),
           NEW b, StarsBut(n, b)
    PROVE  IsNet(m) /\ StarsBut(m, b)
<1>1. IsNet(m) /\ SameShape(n, m) /\ Propagated(n, m, g, k)
  BY PropagateFacts
<1>2. m.kids = n.kids /\ m.model = n.model
  BY <1>1 DEF SameShape
<1>3. \A h \in Galaxy : StarIn(h) \in Blocks
  BY Paths
<1>4. \A h \in Galaxy : m.param[StarIn(h)][0] = NULL => n.param[StarIn(h)][0] = NULL
  BY <1>1, <1>3, Indexes DEF Propagated
<1>5. StarsBut(m, b)
  BY <1>2, <1>4 DEF StarsBut
<1> QED
  BY <1>1, <1>5

LEMMA StarsSlot ==
    ASSUME NEW n, NEW m, m.kids = n.kids, m.model[2] = n.model[2], NEW c \in Blocks, NEW i \in Index,
           OneSlot(n, m, c, i), NEW b, StarsBut(n, b), c \in Star /\ c # b /\ i = 0 => m.param[c][0] # NULL
    PROVE  StarsBut(m, b)
<1>1. ASSUME NEW g \in Galaxy, StarIn(g) # b, StarIn(g) \in Range(m.kids[g])
      PROVE  m.param[StarIn(g)][0] # NULL
  <2>1. StarIn(g) \in Star /\ StarIn(g) \in Blocks /\ 0 \in Index
    BY Paths, Indexes DEF Star
  <2>2. n.param[StarIn(g)][0] # NULL
    BY <1>1 DEF StarsBut
  <2>3. CASE StarIn(g) = c /\ i = 0
    BY <1>1, <2>1, <2>3
  <2>4. CASE ~(StarIn(g) = c /\ i = 0)
    BY <2>1, <2>2, <2>4 DEF OneSlot
  <2> QED
    BY <2>3, <2>4
<1> QED
  BY <1>1 DEF StarsBut

LEMMA StarsTrimmed ==
    ASSUME NEW n, IsNet(n), NEW b \in Present(n), StarsBut(n, b)
    PROVE  IsNet(Trimmed(n, b)) /\ Trimmed(n, b).kids = n.kids /\ StarsBut(Trimmed(n, b), b)
<1>1. PICK m : m = Trimmed(n, b)
  OBVIOUS
<1>2. TrimmedIn(n, m, b)
  BY <1>1, TrimmedIs
<1>3. /\ IsNet(m) /\ m.kids = n.kids
      /\ m.model = [n.model EXCEPT ![ModelOf(b)] = Cut(@, Steps(n, b))]
      /\ \A c \in Blocks : c # b => m.param[c] = n.param[c]
  BY <1>2 DEF TrimmedIn
<1>4. b \in Blocks /\ ModelOf(b) \in Models /\ 2 \in Models
  BY BlockKinds DEF Present, Models
<1>5. n.model \in [Models -> [Index -> Default \cup {NULL}]] /\ n.model[2] = StarModel
  BY NetParts DEF StarsBut
<1>6. m.model[2] = StarModel
  <2>1. CASE ModelOf(b) # 2
    BY <1>3, <1>4, <1>5, <2>1
  <2>2. CASE ModelOf(b) = 2
    <3>1. m.model[2] = Cut(n.model[2], Steps(n, b))
      BY <1>3, <1>4, <1>5, <2>2
    <3>2. Steps(n, b) = KrnParamCount(StarModel)
      BY <1>5, <2>2 DEF Steps
    <3>3. m.model[2] = [j \in Index |-> IF j < KrnParamCount(StarModel) THEN StarModel[j] ELSE NULL]
      BY <1>5, <3>1, <3>2 DEF Cut
    <3>4. \A j \in Index : (IF j < KrnParamCount(StarModel) THEN StarModel[j] ELSE NULL) = StarModel[j]
      BY StarModelFacts
    <3> QED
      BY <3>3, <3>4, StarModelFacts
  <2> QED
    BY <2>1, <2>2
<1>7. \A g \in Galaxy : StarIn(g) # b => m.param[StarIn(g)] = n.param[StarIn(g)]
  BY <1>3, Paths
<1>8. StarsBut(m, b)
  BY <1>3, <1>6, <1>7 DEF StarsBut
<1> QED
  BY <1>1, <1>3, <1>8

(* One parameter of the block that is verified. *)
StarsAfter(n, b, i) == IsNet(n) /\ b \in Present(n) /\ IF i = 0 THEN StarsBut(n, b) ELSE StarsHave(n)

LEMMA StarsStep ==
    ASSUME NEW n, NEW b, NEW i \in Index, StarsAfter(n, b, i), NEW create \in BOOLEAN,
           NEW s, s = Verified(Result(TRUE, n), b, i, create)
    PROVE  IF s.ok THEN StarsAfter(s.net, b, i + 1) ELSE IsNet(s.net) /\ StarsHave(s.net)
<1>1. IsNet(n) /\ b \in Present(n) /\ b \in Blocks /\ StarsBut(n, b)
  BY StarsAll DEF StarsAfter, Present
<1>2. Stepped(n, s, b, i, create)
  BY <1>1, StepVerified
<1>2a. b \in Star => ModelOf(b) = 2
  BY BlockKinds
<1>3. CASE s.ok
  <2>1. PICK n1, m : m = s.net /\ SlotVerified(n, n1, m, b, i, create)
    BY <1>2, <1>3 DEF Stepped
  <2>2. /\ IsNet(n1) /\ n1.kids = n.kids /\ OneSlot(n, n1, b, i) /\ m = propagate_arg(n1, b, i)
        /\ n.model[ModelOf(b)][i] # NULL => n1.param[b][i] # NULL
    BY <2>1 DEF SlotVerified
  <2>3. n1.model[2] = n.model[2]
    <3>1. CASE IsBound(n.param[b][i])
      <4>1. PICK o : n1.model = [n.model EXCEPT ![ModelOf(b) - 1][n.param[b][i].arg] = o]
        BY <2>1, <3>1 DEF SlotVerified
      <4>2. ModelOf(b) \in 0..2
        BY <1>1, BlockKinds DEF Models
      <4>3. PICK l, k : l = ModelOf(b) - 1 /\ k = n.param[b][i].arg
        OBVIOUS
      <4>4. l # 2
        BY <4>2, <4>3
      <4>5. n1.model = [n.model EXCEPT ![l][k] = o]
        BY <4>1, <4>3
      <4>6. n.model \in [Models -> [Index -> Default \cup {NULL}]] /\ 2 \in Models
        BY <1>1, NetParts DEF Models
      <4> QED
        BY <4>4, <4>5, <4>6
    <3>2. CASE ~IsBound(n.param[b][i])
      BY <2>1, <3>2 DEF SlotVerified
    <3> QED
      BY <3>1, <3>2
  <2>4. b \in Star /\ i = 0 => n1.param[b][0] # NULL
    <3>1. n.model[2] = StarModel
      BY <1>1 DEF StarsBut
    <3> QED
      BY <1>2a, <2>2, <3>1, StarModelFacts
  <2>5. StarsBut(n1, b)
    BY <1>1, <2>2, <2>3, StarsSlot
  <2>6. StarsHave(n1)
    <3>1. CASE b \notin Star
      BY <2>5, <3>1, StarsAll
    <3>2. CASE b \in Star /\ i = 0
      BY <2>4, <2>5, <3>2, StarsAll
    <3>3. CASE b \in Star /\ i # 0
      <4>1. PICK u : u = Universe
        OBVIOUS
      <4>2. StarsBut(n, u)
        BY <3>3, StarsAll DEF StarsAfter
      <4>3. StarsBut(n1, u)
        BY <1>1, <2>2, <2>3, <3>3, <4>2, StarsSlot
      <4> QED
        BY <4>1, <4>3, StarsAll, BlockKinds
    <3> QED
      BY <3>1, <3>2, <3>3
  <2>7. IsNet(m) /\ StarsHave(m)
    <3>1. PICK u : u = Universe
      OBVIOUS
    <3>2. StarsBut(n1, u)
      BY <2>6, StarsAll
    <3>3. IsNet(m) /\ StarsBut(m, u)
      BY <1>1, <2>2, <3>2, StarsPropagated
    <3> QED
      BY <3>1, <3>3, StarsAll, BlockKinds
  <2>8. b \in Present(m)
    <3>1. SameShape(n1, m)
      BY <1>1, <2>2, PropagateFacts
    <3> QED
      BY <1>1, <2>2, <3>1 DEF SameShape, Present
  <2>9. i + 1 # 0
    BY Indexes
  <2> QED
    BY <1>3, <2>1, <2>7, <2>8, <2>9 DEF StarsAfter
<1>4. CASE ~s.ok
  <2>1. s.net = n /\ IsBound(n.param[b][i])
    BY <1>2, <1>4 DEF Stepped
  <2>2. StarsHave(n)
    <3>1. CASE i = 0
      <4>1. n.param[b][0] # NULL
        BY <2>1, <3>1 DEF IsBound
      <4> QED
        BY <1>1, <4>1, StarsAll
    <3>2. CASE i # 0
      BY <3>2 DEF StarsAfter
    <3> QED
      BY <3>1, <3>2
  <2> QED
    BY <1>1, <1>4, <2>1, <2>2
<1> QED
  BY <1>3, <1>4

LEMMA VerifyStars ==
    ASSUME NEW n, IsNet(n), NEW b \in Present(n), StarsBut(n, b), NEW r, r = KrnVerifyParams(n, b)
    PROVE  IsNet(r.net) /\ StarsHave(r.net)
<1>1. PICK N : N = Steps(n, b)
  OBVIOUS
<1>2. PICK h : VerifyIs(h, n, b, N) /\ r = h[N]
  BY <1>1, VerifyRun
<1>3. N \in 0..MAX_PARAM /\ N \in Nat /\ MAX_PARAM \in Nat
  BY <1>1, CountBound, Indexes DEF Steps
<1>4. PICK create \in BOOLEAN : create = Creates(n, b)
  BY DEF Creates
<1>5. \A i \in 0..N : h[i] = IF i = 0 THEN Result(TRUE, Trimmed(n, b))
                             ELSE Verified(h[i - 1], b, i - 1, create)
  BY <1>2, <1>4 DEF VerifyIs
<1> DEFINE T == {i \in 0..N : IF h[i].ok THEN StarsAfter(h[i].net, b, i)
                              ELSE IsNet(h[i].net) /\ StarsHave(h[i].net)}
<1>6. 0 \in T
  <2>1. 0 \in 0..N
    BY <1>3
  <2>2. h[0] = Result(TRUE, Trimmed(n, b))
    BY <1>5, <2>1
  <2>3. h[0].ok = TRUE /\ h[0].net = Trimmed(n, b)
    BY <2>2 DEF Result
  <2>4. IsNet(Trimmed(n, b)) /\ Trimmed(n, b).kids = n.kids /\ StarsBut(Trimmed(n, b), b)
    BY StarsTrimmed
  <2>5. b \in Present(Trimmed(n, b))
    BY <2>4 DEF Present
  <2>6. StarsAfter(h[0].net, b, 0)
    BY <2>3, <2>4, <2>5 DEF StarsAfter
  <2> QED
    BY <2>1, <2>3, <2>6
<1>7. ASSUME NEW i \in 0..(N - 1), i \in T
      PROVE  i + 1 \in T
  <2>1. i \in 0..N /\ i + 1 \in 0..N /\ i + 1 # 0 /\ (i + 1) - 1 = i /\ i \in Index
    BY <1>3 DEF Index
  <2>2. PICK q, s : q = h[i] /\ s = h[i + 1]
    OBVIOUS
  <2>3. s = Verified(q, b, i, create)
    BY <1>5, <2>1, <2>2
  <2>4. IF q.ok THEN StarsAfter(q.net, b, i) ELSE IsNet(q.net) /\ StarsHave(q.net)
    BY <1>7, <2>2
  <2>5. CASE ~q.ok
    <3>1. s = q
      BY <2>3, <2>5 DEF Verified
    <3> QED
      BY <2>1, <2>2, <2>4, <2>5, <3>1
  <2>6. CASE q.ok
    <3>1. PICK m : m = q.net
      OBVIOUS
    <3>2. StarsAfter(m, b, i)
      BY <2>4, <2>6, <3>1
    <3>3. s = Verified(Result(TRUE, m), b, i, create)
      BY <2>3, <2>6, <3>1, Zenon DEF Verified, Result
    <3>4. IF s.ok THEN StarsAfter(s.net, b, i + 1) ELSE IsNet(s.net) /\ StarsHave(s.net)
      BY <2>1, <3>2, <3>3, StarsStep
    <3> QED
      BY <2>1, <2>2, <3>4
  <2> QED
    BY <2>5, <2>6
<1> HIDE DEF T
<1>8. 0..N \subseteq T
  BY <1>3, <1>6, <1>7, AllUpTo
<1>9. N \in T
  BY <1>3, <1>8
<1>10. IF r.ok THEN StarsAfter(r.net, b, N) ELSE IsNet(r.net) /\ StarsHave(r.net)
  BY <1>2, <1>9 DEF T
<1>11. CASE r.ok /\ N = 0
  <2>1. b \notin Star
    <3>1. ASSUME b \in Star
          PROVE  FALSE
      <4>1. ModelOf(b) = 2 /\ n.model[2] = StarModel
        BY <3>1, BlockKinds DEF StarsBut
      <4>2. 0 < KrnParamCount(StarModel)
        BY StarModelFacts, Indexes
      <4>3. N = KrnParamCount(StarModel)
        BY <1>1, <4>1 DEF Steps
      <4>4. N = 0
        BY <1>11
      <4> QED
        BY <4>2, <4>3, <4>4
    <3> QED
      BY <3>1
  <2>2. IsNet(r.net) /\ StarsBut(r.net, b)
    BY <1>10, <1>11 DEF StarsAfter
  <2> QED
    BY <2>1, <2>2, StarsAll
<1>12. CASE r.ok /\ N # 0
  BY <1>10, <1>12 DEF StarsAfter
<1> QED
  BY <1>10, <1>11, <1>12

(* A block that is made may be a star without a parameter as yet. *)
LEMMA StarsCreated ==
    ASSUME NEW n, NEW b, NEW m, CreatedIn(n, m, b), StarsHave(n)
    PROVE  StarsBut(m, b)
<1>1. /\ m.model = n.model
      /\ \A c \in Blocks : c # b => m.param[c] = n.param[c]
      /\ \A c \in Blocks : c # Front(b) => m.kids[c] = n.kids[c]
      /\ Range(m.kids[Front(b)]) = Range(n.kids[Front(b)]) \cup {b}
  BY DEF CreatedIn
<1>2. ASSUME NEW g \in Galaxy, StarIn(g) # b, StarIn(g) \in Range(m.kids[g])
      PROVE  m.param[StarIn(g)][0] # NULL
  <2>1. g \in Blocks /\ StarIn(g) \in Blocks
    BY Paths
  <2>2. StarIn(g) \in Range(n.kids[g])
    BY <1>1, <1>2, <2>1
  <2> QED
    BY <1>1, <1>2, <2>1, <2>2 DEF StarsHave
<1> QED
  BY <1>1, <1>2 DEF StarsBut, StarsHave

LEMMA StarsRemoved ==
    ASSUME NEW n, IsNet(n), StarsHave(n), NEW g \in Blocks, NEW m, m = RemoveChildren(n, g)
    PROVE  IsNet(m) /\ StarsHave(m)
<1>1. RemovedIn(n, m, g)
  BY RemoveChildrenFacts
<1>2. /\ IsNet(m) /\ m.model = n.model
      /\ \A c \in Blocks : IF IsStrictPrefix(g, c) THEN m.param[c] = None ELSE m.param[c] = n.param[c]
      /\ \A c \in Blocks : IF IsPrefix(g, c) THEN m.kids[c] = <<>> ELSE m.kids[c] = n.kids[c]
  BY <1>1 DEF RemovedIn
<1>3. ASSUME NEW h \in Galaxy, StarIn(h) \in Range(m.kids[h])
      PROVE  m.param[StarIn(h)][0] # NULL
  <2>1. PICK b : b = StarIn(h)
    OBVIOUS
  <2>2. h \in Blocks /\ b \in Blocks /\ b # Universe /\ Front(b) = h
    BY <2>1, Paths
  <2>3. ~IsPrefix(g, h)
    <3>1. m.kids[h] # <<>>
      BY <1>3 DEF Range
    <3> QED
      BY <1>2, <2>2, <3>1
  <2>4. ~IsStrictPrefix(g, b)
    <3>1. g # h /\ ~(h # Universe /\ g = Universe)
      BY <2>2, <2>3, PrefixOf
    <3>2. h # Universe
      BY Paths
    <3> QED
      BY <2>2, <3>1, <3>2, StrictPrefixOf
  <2>5. m.param[b] = n.param[b] /\ m.kids[h] = n.kids[h]
    BY <1>2, <2>2, <2>3, <2>4
  <2>6. n.param[b][0] # NULL
    BY <1>3, <2>1, <2>5 DEF StarsHave
  <2> QED
    BY <2>1, <2>5, <2>6
<1>4. m.model[2] = StarModel
  BY <1>2 DEF StarsHave
<1> QED
  BY <1>2, <1>3, <1>4 DEF StarsHave

LEMMA StarsEmptied ==
    ASSUME NEW n, IsNet(n), StarsHave(n), NEW g \in Present(n), g \in {Universe} \cup Galaxy,
           NEW f, NEW names, IsFile(f, names), NEW m, m = Emptied(f, n, g)
    PROVE  IsNet(m) /\ StarsHave(m)
<1>1. /\ IsNet(m)
      /\ \A c \in Blocks : ~IsPrefix(g, c) => m.param[c] = n.param[c] /\ m.kids[c] = n.kids[c]
      /\ m.kids[g] = <<>>
      /\ \A k \in Models : k # ModelOf(g) => m.model[k] = n.model[k]
  BY EmptiedFacts
<1>2. g \in Blocks /\ ModelOf(g) # 2 /\ 2 \in Models
  BY Paths DEF Models
<1>3. m.model[2] = StarModel
  BY <1>1, <1>2 DEF StarsHave
<1>4. ASSUME NEW h \in Galaxy, StarIn(h) \in Range(m.kids[h])
      PROVE  m.param[StarIn(h)][0] # NULL
  <2>1. PICK b : b = StarIn(h)
    OBVIOUS
  <2>2. /\ h \in Blocks /\ h # Universe /\ Front(h) = Universe
        /\ b \in Blocks /\ b # Universe /\ Front(b) = h /\ b \notin Galaxy
    BY <2>1, Paths
  <2>3. m.kids[h] # <<>>
    BY <1>4 DEF Range
  <2>4. h \in Range(m.kids[Universe])
    <3>1. h \in Present(m)
      BY <1>1, <2>2, <2>3, NetFields
    <3> QED
      BY <2>2, <3>1 DEF Present
  <2>5. g # Universe /\ g # h
    BY <1>1, <2>3, <2>4 DEF Range
  <2>6. ~IsPrefix(g, h) /\ ~IsPrefix(g, b)
    BY <1>2, <2>2, <2>5, PrefixOf
  <2>7. m.param[b] = n.param[b] /\ m.kids[h] = n.kids[h]
    BY <1>1, <2>2, <2>6
  <2>8. n.param[b][0] # NULL
    BY <1>4, <2>1, <2>7 DEF StarsHave
  <2> QED
    BY <2>1, <2>7, <2>8
<1> QED
  BY <1>1, <1>3, <1>4 DEF StarsHave

(* A line for a star, and all lines of a galaxy. *)
LEMMA StarLineStars ==
    ASSUME NEW n0, NEW n, NEW g \in Galaxy, NEW f, IsFile(f, {starName}),
           NEW j \in 0..(Len(f.blocks) - 1), StarsReading(n0, n, g, f, j), StarsHave(n),
           NEW line, line = f.blocks[j + 1], NEW s, s = StarLine(g, Result(TRUE, n), line)
    PROVE  StarsHave(s.net)
<1>1. ReadFrame(n0, n, g) /\ FromLines(n, g, f, j)
  BY DEF StarsReading
<1>2. IsNet(n) /\ g \in Present(n)
  BY <1>1 DEF ReadFrame
<1>3. j + 1 \in 1..Len(f.blocks) /\ j \in Nat
  BY DEF IsFile
<1>4. line.name = starName /\ line.params \in Seq(LineParams)
  BY <1>3, LineType
<1>5. PICK b : b = StarIn(g)
  OBVIOUS
<1>6. b = Append(g, line.name) /\ b = Append(g, f.blocks[j + 1].name)
  BY <1>4, <1>5 DEF StarIn
<1>7. b \in Blocks /\ b # Universe /\ Front(b) = g
  BY <1>5, Paths
<1>8. b \notin Present(n)
  BY <1>1, <1>2, <1>6, <1>7, LineNew
<1>9. Result(TRUE, n).ok = TRUE /\ Result(TRUE, n).net = n
  BY ResultParts
<1>10. CASE \E i \in DOMAIN line.params : LineParamRefuses(n, g, line.params[i])
  <2>1. s = Result(FALSE, n)
    BY <1>9, <1>10 DEF StarLine
  <2> QED
    BY <2>1, ResultParts
<1>11. CASE ~\E i \in DOMAIN line.params : LineParamRefuses(n, g, line.params[i])
  <2>1. PICK m : m = Created(n, b, line.params)
    OBVIOUS
  <2>2. s = KrnVerifyParams(m, b)
    BY <1>6, <1>9, <1>11, <2>1 DEF StarLine
  <2>3. PICK params \in Seq(LineParams) : params = line.params
    BY <1>4
  <2>4. m = Created(n, b, params)
    BY <2>1, <2>3
  <2>5. CreatedIn(n, m, b)
    BY <1>2, <1>7, <1>8, <2>4, CreatedFacts
  <2>6. IsNet(m) /\ b \in Present(m)
    BY <2>5 DEF CreatedIn
  <2>7. StarsBut(m, b)
    BY <2>5, StarsCreated
  <2> QED
    BY <2>2, <2>6, <2>7, VerifyStars
<1> QED
  BY <1>10, <1>11

LEMMA StarLinesStars ==
    ASSUME NEW n, IsNet(n), StarsHave(n), NEW g \in Galaxy, g \in Present(n), NEW f, IsFile(f, {starName}),
           NEW N, N = Len(f.blocks), NEW h, StarsRead(h, f, n, g, N)
    PROVE  \A j \in 0..N : StarsHave(h[j].net)
<1> DEFINE T == {j \in 0..N : StarsHave(h[j].net)}
<1>1. N \in Nat
  BY DEF IsFile
<1>2. \A j \in 0..N : h[j] = IF j = 0 THEN Result(TRUE, Emptied(f, n, g))
                             ELSE StarLine(g, h[j - 1], f.blocks[j])
  BY DEF StarsRead
<1>3. 0 \in T
  <2>1. 0 \in 0..N
    BY <1>1
  <2>2. h[0] = Result(TRUE, Emptied(f, n, g))
    BY <1>2, <2>1
  <2>3. PICK m : m = Emptied(f, n, g)
    OBVIOUS
  <2>4. h[0].net = m
    BY <2>2, <2>3 DEF Result
  <2>5. StarsHave(m)
    BY <2>3, StarsEmptied
  <2> QED
    BY <2>1, <2>4, <2>5
<1>4. ASSUME NEW j \in 0..(N - 1), j \in T
      PROVE  j + 1 \in T
  <2>1. j \in 0..N /\ j + 1 \in 0..N /\ j + 1 # 0 /\ (j + 1) - 1 = j
    BY <1>1
  <2>2. h[j + 1] = StarLine(g, h[j], f.blocks[j + 1])
    BY <1>2, <2>1
  <2>3. PICK r, s, line : r = h[j] /\ s = h[j + 1] /\ line = f.blocks[j + 1]
    OBVIOUS
  <2>4. StarsHave(r.net)
    BY <1>4, <2>3
  <2>5. CASE ~r.ok
    <3>1. s = r
      BY <2>2, <2>3, <2>5 DEF StarLine
    <3> QED
      BY <2>1, <2>3, <2>4, <3>1
  <2>6. CASE r.ok
    <3>1. PICK m : m = r.net
      OBVIOUS
    <3>2. IF r.ok THEN StarsReading(n, r.net, g, f, j) ELSE ReadFrame(n, r.net, g)
      <4>1. \A i \in 0..N : IF h[i].ok THEN StarsReading(n, h[i].net, g, f, i)
                            ELSE ReadFrame(n, h[i].net, g)
        BY StarLoop
      <4> QED
        BY <2>1, <2>3, <4>1
    <3>3. StarsReading(n, m, g, f, j) /\ StarsHave(m)
      BY <2>4, <2>6, <3>1, <3>2
    <3>4. s = StarLine(g, Result(TRUE, m), line)
      BY <2>2, <2>3, <2>6, <3>1 DEF StarLine, Result
    <3>5. StarsHave(s.net)
      BY <2>3, <3>3, <3>4, StarLineStars
    <3> QED
      BY <2>1, <2>3, <3>5
  <2> QED
    BY <2>5, <2>6
<1> HIDE DEF T
<1>5. 0..N \subseteq T
  BY <1>1, <1>3, <1>4, AllUpTo
<1> QED
  BY <1>5 DEF T

LEMMA GalaxyStars ==
    ASSUME NEW fs, IsFile(fs[1], {starName}), NEW n, IsNet(n), StarsHave(n), NEW g \in Galaxy,
           g \in Present(n), NEW r, r = LoadGalaxy(fs, n, g)
    PROVE  StarsHave(r.net)
<1>1. PICK f, N : f = fs[1] /\ N = Len(f.blocks)
  OBVIOUS
<1>2. IsFile(f, {starName}) /\ N \in Nat
  BY <1>1 DEF IsFile
<1>3. StarsLoaded(r, f, n, g, N)
  BY <1>1, <1>2, StarsReadRun
<1>4. PICK h : /\ StarsRead(h, f, n, g, N)
               /\ r = IF h[N].ok THEN KrnVerifyParams(h[N].net, g)
                      ELSE Result(FALSE, RemoveChildren(h[N].net, g))
  BY <1>3 DEF StarsLoaded
<1>5. PICK m : m = h[N].net
  OBVIOUS
<1>6. N \in 0..N
  BY <1>2
<1>7. StarsHave(m)
  <2>1. \A j \in 0..N : StarsHave(h[j].net)
    BY <1>1, <1>2, <1>4, StarLinesStars
  <2> QED
    BY <1>5, <1>6, <2>1
<1>8. ReadFrame(n, m, g)
  <2>1. \A j \in 0..N : IF h[j].ok THEN StarsReading(n, h[j].net, g, f, j) ELSE ReadFrame(n, h[j].net, g)
    BY <1>1, <1>2, <1>4, StarLoop
  <2>2. IF h[N].ok THEN StarsReading(n, h[N].net, g, f, N) ELSE ReadFrame(n, h[N].net, g)
    BY <1>6, <2>1
  <2> QED
    BY <1>5, <2>2 DEF StarsReading
<1>9. IsNet(m) /\ g \in Present(m) /\ g \in Blocks
  BY <1>8, Paths DEF ReadFrame
<1>10. CASE h[N].ok
  <2>1. r = KrnVerifyParams(m, g)
    BY <1>4, <1>5, <1>10
  <2>2. StarsBut(m, g)
    BY <1>7, StarsAll
  <2> QED
    BY <1>9, <2>1, <2>2, VerifyStars
<1>11. CASE ~h[N].ok
  <2>1. PICK e : e = RemoveChildren(m, g)
    OBVIOUS
  <2>2. r = Result(FALSE, e)
    BY <1>4, <1>5, <1>11, <2>1
  <2>3. StarsHave(e)
    BY <1>7, <1>9, <2>1, StarsRemoved
  <2> QED
    BY <2>2, <2>3, ResultParts
<1> QED
  BY <1>10, <1>11

(* A line for a galaxy, and all lines of the universe. *)
LEMMA GalaxyLineStars ==
    ASSUME NEW fs, IsFile(fs[1], {starName}), NEW f, IsFile(f, Names), NEW n,
           NEW j \in 0..(Len(f.blocks) - 1), GalaxiesReading(n, f, j), StarsHave(n),
           NEW line, line = f.blocks[j + 1],
           NEW s, s = GalaxyLine(fs, Universe, Result(TRUE, n), line)
    PROVE  StarsHave(s.net)
<1>1. IsNet(n) /\ FromLines(n, Universe, f, j)
  BY DEF GalaxiesReading
<1>2. j + 1 \in 1..Len(f.blocks) /\ j \in Nat
  BY DEF IsFile
<1>3. line.name \in Names /\ line.params \in Seq(LineParams)
  BY <1>2, LineType
<1>4. PICK b : b = Append(Universe, line.name)
  OBVIOUS
<1>5. b \in Galaxy
  <2>1. Append(<<>>, line.name) = <<line.name>>
    BY Pairs
  <2> QED
    BY <1>3, <1>4, <2>1 DEF Galaxy, Universe
<1>6. b \in Blocks /\ b # Universe /\ Front(b) = Universe /\ Universe \in Blocks
  BY <1>5, Paths
<1>7. b = Append(Universe, f.blocks[j + 1].name)
  BY <1>4
<1>8. b \notin Present(n)
  BY <1>1, <1>6, <1>7, LineNew
<1>9. Result(TRUE, n).ok = TRUE /\ Result(TRUE, n).net = n
  BY ResultParts
<1>10. CASE \E i \in DOMAIN line.params : LineParamRefuses(n, Universe, line.params[i])
  <2>1. s = Result(FALSE, n)
    BY <1>9, <1>10 DEF GalaxyLine
  <2> QED
    BY <2>1, ResultParts
<1>11. CASE ~\E i \in DOMAIN line.params : LineParamRefuses(n, Universe, line.params[i])
  <2>1. PICK m : m = Created(n, b, line.params)
    OBVIOUS
  <2>2. s = LoadGalaxy(fs, m, b)
    BY <1>4, <1>9, <1>11, <2>1 DEF GalaxyLine
  <2>3. PICK params \in Seq(LineParams) : params = line.params
    BY <1>3
  <2>4. m = Created(n, b, params)
    BY <2>1, <2>3
  <2>5. Front(b) \in Present(n)
    BY <1>6 DEF Present
  <2>6. CreatedIn(n, m, b)
    BY <1>1, <1>6, <1>8, <2>4, <2>5, CreatedFacts
  <2>7. IsNet(m) /\ b \in Present(m)
    BY <2>6 DEF CreatedIn
  <2>8. StarsBut(m, b)
    BY <2>6, StarsCreated
  <2>9. StarsHave(m)
    <3>1. b \notin Star
      BY <1>5, BlockKinds
    <3> QED
      BY <2>8, <3>1, StarsAll
  <2> QED
    BY <1>5, <2>2, <2>7, <2>9, GalaxyStars
<1> QED
  BY <1>10, <1>11

LEMMA GalaxyLinesStars ==
    ASSUME NEW fs, IsFile(fs[1], {starName}), NEW f, IsFile(f, Names), NEW n, IsNet(n), StarsHave(n),
           NEW N, N = Len(f.blocks), NEW h, GalaxiesRead(h, fs, f, n, Universe, N)
    PROVE  \A j \in 0..N : StarsHave(h[j].net)
<1> DEFINE T == {j \in 0..N : StarsHave(h[j].net)}
<1>1. N \in Nat
  BY DEF IsFile
<1>2. \A j \in 0..N : h[j] = IF j = 0 THEN Result(TRUE, Emptied(f, n, Universe))
                             ELSE GalaxyLine(fs, Universe, h[j - 1], f.blocks[j])
  BY DEF GalaxiesRead
<1>3. 0 \in T
  <2>1. 0 \in 0..N
    BY <1>1
  <2>2. h[0] = Result(TRUE, Emptied(f, n, Universe))
    BY <1>2, <2>1
  <2>3. PICK m, g : m = Emptied(f, n, g) /\ g = Universe
    OBVIOUS
  <2>4. h[0].net = m
    <3>1. h[0] = Result(TRUE, m)
      BY <2>2, <2>3
    <3> QED
      BY <3>1 DEF Result
  <2>5. g \in Present(n) /\ g \in {Universe} \cup Galaxy
    BY <2>3, Paths DEF Present
  <2>6. StarsHave(m)
    BY <2>3, <2>5, StarsEmptied
  <2> QED
    BY <2>1, <2>4, <2>6
<1>4. ASSUME NEW j \in 0..(N - 1), j \in T
      PROVE  j + 1 \in T
  <2>1. j \in 0..N /\ j + 1 \in 0..N /\ j + 1 # 0 /\ (j + 1) - 1 = j
    BY <1>1
  <2>2. h[j + 1] = GalaxyLine(fs, Universe, h[j], f.blocks[j + 1])
    BY <1>2, <2>1
  <2>3. PICK r, s, line : r = h[j] /\ s = h[j + 1] /\ line = f.blocks[j + 1]
    OBVIOUS
  <2>4. StarsHave(r.net)
    BY <1>4, <2>3
  <2>5. CASE ~r.ok
    <3>1. s = r
      BY <2>2, <2>3, <2>5 DEF GalaxyLine
    <3> QED
      BY <2>1, <2>3, <2>4, <3>1
  <2>6. CASE r.ok
    <3>1. PICK m : m = r.net
      OBVIOUS
    <3>2. IF r.ok THEN GalaxiesReading(r.net, f, j) ELSE IsNet(r.net)
      <4>1. \A i \in 0..N : IF h[i].ok THEN GalaxiesReading(h[i].net, f, i) ELSE IsNet(h[i].net)
        BY GalaxyLoop
      <4> QED
        BY <2>1, <2>3, <4>1
    <3>3. GalaxiesReading(m, f, j) /\ StarsHave(m)
      BY <2>4, <2>6, <3>1, <3>2
    <3>4. s = GalaxyLine(fs, Universe, Result(TRUE, m), line)
      BY <2>2, <2>3, <2>6, <3>1 DEF GalaxyLine, Result
    <3>5. StarsHave(s.net)
      BY <2>3, <3>3, <3>4, GalaxyLineStars
    <3> QED
      BY <2>1, <2>3, <3>5
  <2> QED
    BY <2>5, <2>6
<1> HIDE DEF T
<1>5. 0..N \subseteq T
  BY <1>1, <1>3, <1>4, AllUpTo
<1> QED
  BY <1>5 DEF T

LEMMA LoadStars ==
    ASSUME NEW fs, AreFiles(fs), NEW n, IsNet(n), StarsHave(n), NEW g \in Present(n),
           g \in {Universe} \cup Galaxy, NEW r, r = LineLoad(fs, n, g)
    PROVE  StarsHave(r.net)
<1>1. IsFile(fs[0], Names) /\ IsFile(fs[1], {starName})
  BY DEF AreFiles
<1>2. CASE g # Universe
  <2>1. g \in Galaxy /\ r = LoadGalaxy(fs, n, g)
    BY <1>2 DEF LineLoad
  <2> QED
    BY <1>1, <2>1, GalaxyStars
<1>3. CASE g = Universe
  <2>1. PICK f, N : f = fs[0] /\ N = Len(f.blocks)
    OBVIOUS
  <2>2. IsFile(f, Names) /\ N \in Nat
    BY <1>1, <2>1 DEF IsFile
  <2>3. GalaxiesLoaded(r, fs, f, n, g, N)
    BY <1>3, <2>1, <2>2, GalaxiesReadRun
  <2>4. PICK h : /\ GalaxiesRead(h, fs, f, n, g, N)
                 /\ r = IF h[N].ok THEN KrnVerifyParams(h[N].net, g)
                        ELSE Result(FALSE, RemoveChildren(h[N].net, g))
    BY <2>3 DEF GalaxiesLoaded
  <2>5. PICK m : m = h[N].net
    OBVIOUS
  <2>6. N \in 0..N
    BY <2>2
  <2>7. GalaxiesRead(h, fs, f, n, Universe, N)
    BY <1>3, <2>4
  <2>8. StarsHave(m)
    <3>1. \A j \in 0..N : StarsHave(h[j].net)
      BY <1>1, <2>1, <2>2, <2>7, GalaxyLinesStars
    <3> QED
      BY <2>5, <2>6, <3>1
  <2>9. IsNet(m)
    <3>1. \A j \in 0..N : IF h[j].ok THEN GalaxiesReading(h[j].net, f, j) ELSE IsNet(h[j].net)
      BY <1>1, <2>1, <2>2, <2>7, GalaxyLoop
    <3>2. IF h[N].ok THEN GalaxiesReading(h[N].net, f, N) ELSE IsNet(h[N].net)
      BY <2>6, <3>1
    <3> QED
      BY <2>5, <3>2 DEF GalaxiesReading
  <2>10. g \in Present(m) /\ g \in Blocks
    BY <1>3, Paths DEF Present
  <2>11. CASE h[N].ok
    <3>1. r = KrnVerifyParams(m, g)
      BY <2>4, <2>5, <2>11
    <3>2. StarsBut(m, g)
      BY <2>8, StarsAll
    <3> QED
      BY <2>9, <2>10, <3>1, <3>2, VerifyStars
  <2>12. CASE ~h[N].ok
    <3>1. PICK e : e = RemoveChildren(m, g)
      OBVIOUS
    <3>2. r = Result(FALSE, e)
      BY <2>4, <2>5, <2>12, <3>1
    <3>3. StarsHave(e)
      BY <2>8, <2>9, <2>10, <3>1, StarsRemoved
    <3> QED
      BY <3>2, <3>3, ResultParts
  <2> QED
    BY <2>11, <2>12
<1> QED
  BY <1>2, <1>3

(* Commands that change one parameter, or the arguments of a galaxy. *)
LEMMA SlotStars ==
    ASSUME NEW n, StarsHave(n), NEW n1, IsNet(n1), n1.kids = n.kids, n1.model[2] = n.model[2],
           NEW c \in Blocks, NEW i \in Index, OneSlot(n, n1, c, i),
           c \in Star /\ i = 0 => n1.param[c][0] # NULL
    PROVE  /\ StarsHave(n1)
           /\ \A g \in Blocks, k \in Index :
                 IsNet(propagate_arg(n1, g, k)) /\ StarsHave(propagate_arg(n1, g, k))
<1>1. PICK u : u = Universe
  OBVIOUS
<1>2. u \notin Star
  BY <1>1, BlockKinds
<1>3. StarsBut(n, u)
  BY StarsAll
<1>4. StarsBut(n1, u)
  BY <1>3, StarsSlot
<1>5. ASSUME NEW g \in Blocks, NEW k \in Index
      PROVE  IsNet(propagate_arg(n1, g, k)) /\ StarsHave(propagate_arg(n1, g, k))
  <2>1. PICK m : m = propagate_arg(n1, g, k)
    OBVIOUS
  <2>2. IsNet(m) /\ StarsBut(m, u)
    BY <1>4, <2>1, StarsPropagated
  <2> QED
    BY <1>2, <2>1, <2>2, StarsAll
<1> QED
  BY <1>2, <1>4, <1>5, StarsAll

(* An argument that is set, or freed. *)
LEMMA ArgStars ==
    ASSUME NEW n, IsNet(n), StarsHave(n), NEW g \in Present(n), g \in {Universe} \cup Galaxy,
           NEW k \in Index, NEW q \in Default \cup {NULL}, NEW F \in [Models -> BOOLEAN],
           NEW p \in Param \cup {NULL}, MayHave(g, p),
           NEW m, m = propagate_arg(WithSlot(n, ModelWith(n, g, k, q), F, g, k, p), g, k)
    PROVE  IsNet(m) /\ StarsHave(m) /\ m.kids = n.kids
<1>1. PICK M : M = ModelWith(n, g, k, q)
  OBVIOUS
<1>2. M \in [Models -> [Index -> Default \cup {NULL}]]
  BY <1>1, OtherModel
<1>3. PICK n1 : n1 = WithSlot(n, M, F, g, k, p)
  OBVIOUS
<1>4. SlotIn(n, n1, M, F, g, k, p)
  BY <1>2, <1>3, SlotIs
<1>5. n1.kids = n.kids /\ n1.model = M /\ OneSlot(n, n1, g, k) /\ IsNet(n1)
  BY <1>4 DEF SlotIn
<1>6. g \in Blocks /\ g \notin Star /\ ModelOf(g) # 2 /\ 2 \in Models
  BY Paths, BlockKinds DEF Models
<1>7. n1.model[2] = n.model[2]
  <2>1. n.model \in [Models -> [Index -> Default \cup {NULL}]]
    BY NetParts
  <2> QED
    BY <1>1, <1>5, <1>6, <2>1 DEF ModelWith
<1>8. m = propagate_arg(n1, g, k)
  BY <1>1, <1>3
<1>9. IsNet(m) /\ StarsHave(m)
  BY <1>5, <1>6, <1>7, <1>8, SlotStars
<1>10. SameShape(n1, m)
  BY <1>5, <1>6, <1>8, PropagateFacts
<1> QED
  BY <1>5, <1>9, <1>10 DEF SameShape

LEMMA ArgNULLStars ==
    ASSUME NEW n, IsNet(n), StarsHave(n), NEW g \in Present(n), g \in {Universe} \cup Galaxy,
           NEW k \in Index, NEW m, m = propagate_arg(ArgNet(n, g, k, NULL, NULL), g, k)
    PROVE  StarsHave(m)
<1>1. PICK q, F : q = NULL /\ F = FlagWith(n, g)
  OBVIOUS
<1>2. q \in Default \cup {NULL} /\ q \in Param \cup {NULL} /\ F \in [Models -> BOOLEAN] /\ MayHave(g, q)
  BY <1>1, OtherModel DEF MayHave, IsBound
<1>3. m = propagate_arg(WithSlot(n, ModelWith(n, g, k, q), F, g, k, q), g, k)
  BY <1>1, ArgNetIs
<1> QED
  BY <1>2, <1>3, ArgStars

LEMMA ArgSetStars ==
    ASSUME NEW n, IsNet(n), StarsHave(n), NEW g \in Present(n), g \in {Universe} \cup Galaxy,
           NEW k \in Index, NEW q \in Default, NEW p \in Param \cup {NULL}, MayHave(g, p),
           NEW m, m = propagate_arg(ArgNet(n, g, k, q, p), g, k)
    PROVE  StarsHave(m)
<1>1. PICK F : F = FlagWith(n, g)
  OBVIOUS
<1>2. q \in Default \cup {NULL} /\ F \in [Models -> BOOLEAN]
  BY <1>1, OtherModel
<1>3. m = propagate_arg(WithSlot(n, ModelWith(n, g, k, q), F, g, k, p), g, k)
  BY <1>1, ArgNetIs
<1> QED
  BY <1>2, <1>3, ArgStars

LEMMA ArgFreeStars ==
    ASSUME NEW n, IsNet(n), StarsHave(n), NEW g \in Present(n), g \in {Universe} \cup Galaxy,
           NEW k \in Index, NEW m, m = propagate_arg(ArgFree(n, g, k), g, k)
    PROVE  IsNet(m) /\ StarsHave(m) /\ m.kids = n.kids
<1>1. PICK q, F : q = NULL /\ F = n.flag
  OBVIOUS
<1>2. q \in Default \cup {NULL} /\ q \in Param \cup {NULL} /\ F \in [Models -> BOOLEAN] /\ MayHave(g, q)
  BY <1>1, NetParts DEF MayHave, IsBound
<1>3. m = propagate_arg(WithSlot(n, ModelWith(n, g, k, q), F, g, k, q), g, k)
  BY <1>1, ArgFreeIs
<1> QED
  BY <1>2, <1>3, ArgStars

LEMMA RedefinedStars ==
    ASSUME IsNet(net), StarsHave(net), NEW g \in Present(net), g \in {Universe} \cup Galaxy,
           NEW k \in Index, NEW pp \in Default, NEW m, m = Redefined(g, k, pp)
    PROVE  StarsHave(m)
<1>1. PICK old : old = net.model[ModelOf(g)][k]
  OBVIOUS
<1>2. PICK freed : freed = IF old = NULL \/ old.type = pp.type THEN net
                           ELSE propagate_arg(ArgFree(net, g, k), g, k)
  OBVIOUS
<1>3. PICK own : own = IF g = Universe THEN pp
                       ELSE IF old = NULL THEN freed.param[g][k]
                       ELSE KrnParamCheck(freed.param[g][k], pp)
  OBVIOUS
<1>4. m = propagate_arg(ArgNet(freed, g, k, pp, own), g, k)
  <2>1. Redefined(g, k, pp) =
          LET o == net.model[ModelOf(g)][k]
              f == IF o = NULL \/ o.type = pp.type THEN net
                   ELSE propagate_arg(ArgFree(net, g, k), g, k)
              w == IF g = Universe THEN pp
                   ELSE IF o = NULL THEN f.param[g][k]
                   ELSE KrnParamCheck(f.param[g][k], pp)
          IN propagate_arg(ArgNet(f, g, k, pp, w), g, k)
    BY DEF Redefined, ArgNet, ArgFree
  <2> QED
    BY <1>1, <1>2, <1>3, <2>1
<1>5. g \in Blocks
  BY DEF Present
<1>6. IsNet(freed) /\ StarsHave(freed) /\ g \in Present(freed)
  <2>1. CASE old = NULL \/ old.type = pp.type
    BY <1>2, <2>1
  <2>2. CASE ~(old = NULL \/ old.type = pp.type)
    <3>1. freed = propagate_arg(ArgFree(net, g, k), g, k)
      BY <1>2, <2>2
    <3>2. IsNet(freed) /\ StarsHave(freed) /\ freed.kids = net.kids
      BY <3>1, ArgFreeStars
    <3> QED
      BY <3>2 DEF Present
  <2> QED
    BY <2>1, <2>2
<1>7. freed.param[g][k] \in Param \cup {NULL} /\ pp \in Param /\ pp.type \in Types /\ ~IsBound(pp)
  BY <1>5, <1>6, ParamType, ParamFacts
<1>8. own \in Param \cup {NULL} /\ MayHave(g, own)
  <2>1. CASE g = Universe
    BY <1>3, <1>7, <2>1 DEF MayHave
  <2>2. CASE g # Universe /\ old = NULL
    BY <1>3, <1>7, <2>2 DEF MayHave
  <2>3. CASE g # Universe /\ old # NULL
    <3>1. own = KrnParamCheck(freed.param[g][k], pp)
      BY <1>3, <2>3
    <3> QED
      BY <1>7, <2>3, <3>1, ParamFacts DEF KrnParamCheck, MayHave
  <2> QED
    BY <2>1, <2>2, <2>3
<1> QED
  BY <1>4, <1>6, <1>8, ArgSetStars

LEMMA ArgNoneStars ==
    ASSUME NEW n, IsNet(n), StarsHave(n), NEW g \in Present(n), g \in {Universe} \cup Galaxy, NEW n1,
           n1 = ArgsGone(n, g), NEW m, m = TurnOff(n1, BoundToAny(n1, g))
    PROVE  StarsHave(m)
<1>1. ArgsGoneIn(n, n1, g)
  BY ArgsGoneFacts
<1>2. /\ IsNet(n1) /\ n1.kids = n.kids /\ n1.model = [n.model EXCEPT ![ModelOf(g)] = None]
      /\ \A c \in Blocks : c # g => n1.param[c] = n.param[c]
  BY <1>1 DEF ArgsGoneIn
<1>3. g \in Blocks /\ g \notin Star /\ ModelOf(g) # 2 /\ 2 \in Models
  BY Paths, BlockKinds DEF Models
<1>4. n1.model[2] = StarModel
  <2>1. n.model \in [Models -> [Index -> Default \cup {NULL}]] /\ n.model[2] = StarModel
    BY NetParts DEF StarsHave
  <2> QED
    BY <1>2, <1>3, <2>1
<1>5. PICK X : X = BoundToAny(n1, g)
  OBVIOUS
<1>6. X \subseteq Bindings(n1)
  <2>1. \A k \in Index : BoundTo(n1, g, k) \subseteq Bindings(n1)
    BY <1>2, <1>3, BoundToFacts
  <2> QED
    BY <1>5, <2>1 DEF BoundToAny
<1>7. m.kids = n1.kids /\ m.model = n1.model /\ TurnedFrom(n1, m, X)
  <2>1. m = TurnOff(n1, X)
    BY <1>5
  <2> QED
    BY <1>2, <1>6, <2>1, TurnOffFacts
<1>8. ASSUME NEW h \in Galaxy, StarIn(h) \in Range(m.kids[h])
      PROVE  m.param[StarIn(h)][0] # NULL
  <2>1. PICK b : b = StarIn(h)
    OBVIOUS
  <2>2. b \in Blocks /\ b # g /\ 0 \in Index
    BY <1>3, <2>1, Paths, Indexes DEF Star
  <2>3. n.param[b][0] # NULL /\ n1.param[b] = n.param[b]
    BY <1>2, <1>7, <1>8, <2>1, <2>2 DEF StarsHave
  <2>4. CASE <<b, 0>> \in X
    <3>1. n1.param[b][0] \in Param
      BY <1>2, <1>6, <2>4, BindingFacts
    <3>2. m.param[b][0] = [n1.param[b][0] EXCEPT !.arg = Unbound]
      BY <1>7, <2>2, <2>4 DEF TurnedFrom
    <3>3. m.param[b][0] \in Param
      BY <3>1, <3>2 DEF Param
    <3> QED
      BY <2>1, <3>3, ParamFacts
  <2>5. CASE <<b, 0>> \notin X
    <3>1. m.param[b][0] = n1.param[b][0]
      BY <1>7, <2>2, <2>5 DEF TurnedFrom
    <3> QED
      BY <2>1, <2>3, <3>1
  <2> QED
    BY <2>4, <2>5
<1> QED
  BY <1>4, <1>7, <1>8 DEF StarsHave

LEMMA RemoveStars ==
    ASSUME NEW n, IsNet(n), StarsHave(n), NEW b \in Present(n), b # Universe, NEW m, m = RemoveBlock(n, b)
    PROVE  StarsHave(m)
<1>1. /\ \A c \in Blocks : IF IsPrefix(b, c) THEN m.param[c] = None ELSE m.param[c] = n.param[c]
      /\ IsNet(m) /\ m.model = n.model
      /\ \A c \in Blocks : Range(m.kids[c]) \subseteq Range(n.kids[c]) \ {b}
  BY RemoveBlockFacts
<1>2. ASSUME NEW h \in Galaxy, StarIn(h) \in Range(m.kids[h])
      PROVE  m.param[StarIn(h)][0] # NULL
  <2>1. PICK c : c = StarIn(h)
    OBVIOUS
  <2>2. /\ h \in Blocks /\ h # Universe /\ Front(h) = Universe
        /\ c \in Blocks /\ c # Universe /\ Front(c) = h /\ b \in Blocks
    BY <2>1, Paths DEF Present
  <2>3. c \in Range(n.kids[h]) /\ c # b
    BY <1>1, <1>2, <2>1, <2>2
  <2>4. h \in Range(m.kids[Universe])
    <3>1. m.kids[h] # <<>>
      BY <1>2 DEF Range
    <3>2. h \in Present(m)
      BY <1>1, <2>2, <3>1, NetFields
    <3> QED
      BY <2>2, <3>2 DEF Present
  <2>5. h # b
    BY <1>1, <2>4, Paths
  <2>6. ~IsPrefix(b, c)
    BY <2>2, <2>3, <2>5, PrefixOf
  <2>7. n.param[c][0] # NULL
    BY <2>1, <2>3 DEF StarsHave
  <2> QED
    BY <1>1, <2>1, <2>2, <2>6, <2>7
<1> QED
  BY <1>1, <1>2 DEF StarsHave

(* The invariant: what a command leaves. *)
LEMMA ChpStars ==
    ASSUME NEW n, IsNet(n), StarsHave(n), NEW b \in Present(n), b # Universe, NEW i \in Index,
           NEW p \in Param \cup {NULL}, b \in Star /\ i = 0 => p # NULL, NEW n1, n1 = WithParam(n, b, i, p)
    PROVE  /\ StarsHave(n1)
           /\ \A g \in Blocks, k \in Index : StarsHave(propagate_arg(n1, g, k))
<1>1. SlotSet(n, n1, b, i, p)
  BY OneSet
<1>2. IsNet(n1) /\ n1.kids = n.kids /\ n1.param[b][i] = p /\ OneSlot(n, n1, b, i)
  BY <1>1 DEF SlotSet
<1>3. n1.model[2] = n.model[2] /\ b \in Blocks
  BY <1>1 DEF SlotSet, WithSlot, Present
<1> QED
  BY <1>2, <1>3, SlotStars

LEMMA ChpKeepsStars ==
    ASSUME IInv, StarsHave(net), LineChp
    PROVE  StarsHave(net')
<1>1. IsNet(net)
  BY DEF IInv, TypeOK
<1>2. PICK b \in Present(net) \ {Universe}, i \in Index :
          \/ \E k \in Index : LineChpArg(b, i, k)
          \/ \E v \in Values : LineChpValue(b, i, v)
          \/ LineChpOff(b, i)
          \/ LineChpDefault(b, i)
  BY DEF LineChp
<1>3. b \in Present(net) /\ b # Universe /\ b \in Blocks /\ Front(b) \in Blocks
  BY BlockKinds, Paths DEF Present
<1>4. PICK p : p = net.param[b][i]
  OBVIOUS
<1>5. p \in Param \cup {NULL}
  BY <1>1, <1>3, <1>4, NetFields
<1>6. ASSUME NEW k \in Index, LineChpArg(b, i, k)
      PROVE  StarsHave(net')
  <2>1. p # NULL /\ net' = propagate_arg([net EXCEPT !.param[b][i].arg = k], Front(b), k)
    BY <1>4, <1>6 DEF LineChpArg, Changeable, Leave, LeaveAfter
  <2>2. PICK p1 : p1 = [p EXCEPT !.arg = k]
    OBVIOUS
  <2>3. p1 \in Param \cup {NULL} /\ p1 # NULL
    BY <1>5, <2>1, <2>2, ParamFacts DEF Param
  <2>4. PICK n1 : n1 = WithParam(net, b, i, p1)
    OBVIOUS
  <2>5. n1 = [net EXCEPT !.param[b][i].arg = k]
    BY <1>4, <2>2, <2>4 DEF WithParam
  <2>6. \A g \in Blocks, l \in Index : StarsHave(propagate_arg(n1, g, l))
    BY <1>1, <1>3, <2>3, <2>4, ChpStars
  <2> QED
    BY <1>3, <2>1, <2>5, <2>6
<1>7. ASSUME LineChpOff(b, i)
      PROVE  StarsHave(net')
  <2>1. p # NULL /\ net' = [net EXCEPT !.param[b][i].arg = Unbound]
    BY <1>4, <1>7 DEF LineChpOff, Changeable, Leave, LeaveAfter
  <2>2. PICK p1 : p1 = [p EXCEPT !.arg = Unbound]
    OBVIOUS
  <2>3. p1 \in Param \cup {NULL} /\ p1 # NULL
    BY <1>5, <2>1, <2>2, ParamFacts DEF Param
  <2>4. PICK n1 : n1 = WithParam(net, b, i, p1)
    OBVIOUS
  <2>5. n1 = [net EXCEPT !.param[b][i].arg = Unbound]
    BY <1>4, <2>2, <2>4 DEF WithParam
  <2>6. StarsHave(n1)
    BY <1>1, <1>3, <2>3, <2>4, ChpStars
  <2> QED
    BY <2>1, <2>5, <2>6
<1>8. ASSUME NEW v \in Values, LineChpValue(b, i, v)
      PROVE  StarsHave(net')
  <2>1. PICK w : w = IF p.type = "arg" THEN p.val ELSE v
    OBVIOUS
  <2>2. PICK p1 : p1 = [p EXCEPT !.arg = Unbound, !.val = w]
    OBVIOUS
  <2>3. p # NULL
        /\ net' = propagate_arg([net EXCEPT !.param[b][i].arg = Unbound,
                                            !.param[b][i].val = IF p.type = "arg" THEN @ ELSE v], b, i)
    BY <1>4, <1>8 DEF LineChpValue, Changeable, Leave, LeaveAfter
  <2>4. p \in Param /\ w \in Values
    BY <1>5, <2>1, <2>3, ParamFacts
  <2>5. p1 = [type |-> p.type, val |-> w, arg |-> Unbound] /\ p1 \in Param
    BY <2>2, <2>4 DEF Param
  <2>6. p1 \in Param \cup {NULL} /\ p1 # NULL
    BY <2>5, ParamFacts
  <2>7. PICK n1 : n1 = WithParam(net, b, i, p1)
    OBVIOUS
  <2>8. n1 = [net EXCEPT !.param[b][i].arg = Unbound,
                         !.param[b][i].val = IF p.type = "arg" THEN @ ELSE v]
    BY <1>4, <2>1, <2>2, <2>7 DEF WithParam
  <2>9. \A g \in Blocks, l \in Index : StarsHave(propagate_arg(n1, g, l))
    BY <1>1, <1>3, <2>6, <2>7, ChpStars
  <2> QED
    BY <1>3, <2>3, <2>8, <2>9
<1>9. ASSUME LineChpDefault(b, i)
      PROVE  StarsHave(net')
  <2>1. PICK q : q = net.model[ModelOf(b)][i]
    OBVIOUS
  <2>2. PICK p1 : p1 = KrnParamCheck(NULL, q)
    OBVIOUS
  <2>3. net' = propagate_arg([net EXCEPT !.param[b][i] = p1], b, i)
    BY <1>9, <2>1, <2>2 DEF LineChpDefault, Leave, LeaveAfter
  <2>4. q \in Default \cup {NULL}
    BY <1>1, <1>3, <2>1, NetFields, BlockKinds
  <2>5. p1 \in Default \cup {NULL} /\ (q # NULL => p1 # NULL)
    BY <2>2, <2>4, ParamFacts DEF KrnParamCheck
  <2>6. p1 \in Param \cup {NULL}
    BY <2>5, ParamFacts
  <2>7. b \in Star /\ i = 0 => p1 # NULL
    <3>1. b \in Star /\ i = 0 => q = StarModel[0]
      BY <2>1, BlockKinds DEF StarsHave
    <3> QED
      BY <2>5, <3>1, StarModelFacts
  <2>8. PICK n1 : n1 = WithParam(net, b, i, p1)
    OBVIOUS
  <2>9. n1 = [net EXCEPT !.param[b][i] = p1]
    BY <2>8 DEF WithParam
  <2>10. \A g \in Blocks, l \in Index : StarsHave(propagate_arg(n1, g, l))
    BY <1>1, <1>3, <2>6, <2>7, <2>8, ChpStars
  <2> QED
    BY <1>3, <2>3, <2>9, <2>10
<1> QED
  BY <1>2, <1>6, <1>7, <1>8, <1>9

LEMMA FlagStars ==
    ASSUME NEW n, IsNet(n), StarsHave(n), NEW g, NEW m, m = [n EXCEPT !.flag[ModelOf(g)] = FALSE]
    PROVE  StarsHave(m)
<1>1. PICK K, M, F, P : n = [kids |-> K, model |-> M, flag |-> F, param |-> P]
  BY NetParts
<1>2. PICK F1 : F1 = [F EXCEPT ![ModelOf(g)] = FALSE]
  OBVIOUS
<1>3. m = [kids |-> K, model |-> M, flag |-> F1, param |-> P]
  BY <1>1, <1>2
<1>4. m.kids = n.kids /\ m.model = n.model /\ m.param = n.param
  BY <1>1, <1>3
<1> QED
  BY <1>4 DEF StarsHave

LEMMA BlockKeepsStars ==
    ASSUME IInv, StarsHave(net), NEW g \in Selectable, NEW name,
           name \in (IF g = Universe THEN Names ELSE {starName}),
           NEW params \in BoundedSeq(Line, 1), L_block(g, name, params)
    PROVE  StarsHave(net')
<1>1. IsNet(net) /\ AreFiles(file)
  BY DEF IInv, TypeOK
<1>2. g \in Present(net) /\ g \in Blocks /\ g \in {Universe} \cup Galaxy
  BY SelectableOnes
<1>3. PICK b : b = Append(g, name)
  OBVIOUS
<1>4. b \in Blocks /\ b # Universe /\ Front(b) = g
  BY <1>2, <1>3, MadeBlock
<1>5. params \in Seq(LineParams)
  BY MadeParams
<1>6. PICK n : n = Created(net, b, params)
  OBVIOUS
<1>7. PICK r : r = IF b \in Galaxy THEN LineLoad(file, n, b) ELSE KrnVerifyParams(n, b)
  OBVIOUS
<1>8. b \notin Present(net) /\ net' = r.net
  BY <1>3, <1>6, <1>7 DEF L_block, LeaveAfter
<1>9. CreatedIn(net, n, b)
  BY <1>1, <1>2, <1>4, <1>5, <1>6, <1>8, CreatedFacts
<1>10. IsNet(n) /\ b \in Present(n)
  BY <1>9 DEF CreatedIn
<1>11. StarsBut(n, b)
  BY <1>9, StarsCreated
<1>12. CASE b \in Galaxy
  <2>1. b \notin Star
    BY <1>12, BlockKinds
  <2>2. StarsHave(n)
    BY <1>11, <2>1, StarsAll
  <2>3. r = LineLoad(file, n, b) /\ b \in {Universe} \cup Galaxy
    BY <1>7, <1>12
  <2> QED
    BY <1>1, <1>8, <1>10, <2>2, <2>3, LoadStars
<1>13. CASE b \notin Galaxy
  <2>1. r = KrnVerifyParams(n, b)
    BY <1>7, <1>13
  <2> QED
    BY <1>8, <1>10, <1>11, <2>1, VerifyStars
<1> QED
  BY <1>12, <1>13

-----------------------------------------------------------------------------
(* StarsHave holds in the initial state, and every command keeps it.       *)
LEMMA InitStars == Init => StarsHave(net)
<1> SUFFICES ASSUME Init
             PROVE  StarsHave(net)
  OBVIOUS
<1>1. net.kids = [b \in Blocks |-> <<>>] /\ net.model = [m \in Models |-> IF m = 2 THEN StarModel ELSE None]
  BY DEF Init
<1>2. net.model[2] = StarModel
  BY <1>1 DEF Models
<1>3. \A g \in Galaxy : net.kids[g] = <<>>
  BY <1>1, Paths
<1> QED
  BY <1>2, <1>3 DEF StarsHave, Range

LEMMA NextStars == IInv /\ StarsHave(net) /\ [Next]_vars => StarsHave(net')
<1> SUFFICES ASSUME IInv, StarsHave(net), [Next]_vars
             PROVE  StarsHave(net')
  OBVIOUS
<1>1. IsNet(net) /\ AreFiles(file)
  BY DEF IInv, TypeOK
<1>2. ASSUME NEW g \in Selectable, L_load(g)
      PROVE  StarsHave(net')
  <2>1. g \in Present(net) /\ g \in {Universe} \cup Galaxy
    BY SelectableOnes
  <2>2. PICK r : r = LineLoad(file, net, g)
    OBVIOUS
  <2>3. net' = r.net
    BY <1>2, <2>2 DEF L_load, LeaveAfter
  <2> QED
    BY <1>1, <2>1, <2>2, <2>3, LoadStars
<1>3. ASSUME NEW g \in Selectable, L_store(g)
      PROVE  StarsHave(net')
  BY <1>1, <1>3, FlagStars DEF L_store, Leave, LeaveAfter
<1>4. ASSUME NEW g \in Selectable, NEW k \in Index, LineArgNULL(g, k)
      PROVE  StarsHave(net')
  <2>1. g \in Present(net) /\ g \in {Universe} \cup Galaxy
    BY SelectableOnes
  <2>2. net' = propagate_arg(ArgNet(net, g, k, NULL, NULL), g, k)
    BY <1>4 DEF LineArgNULL, Leave, LeaveAfter, ArgNet
  <2> QED
    BY <1>1, <2>1, <2>2, ArgNULLStars
<1>5. ASSUME NEW g \in Selectable, NEW k \in Index, NEW t \in Types, NEW v \in Values, LineArg(g, k, t, v)
      PROVE  StarsHave(net')
  <2>1. g \in Present(net) /\ g \in {Universe} \cup Galaxy
    BY SelectableOnes
  <2>2. PICK pp : pp = Set(t, v)
    OBVIOUS
  <2>3. pp \in Default /\ net' = Redefined(g, k, pp)
    BY <1>5, <2>2, ParamFacts DEF LineArg, Leave, LeaveAfter
  <2> QED
    BY <1>1, <2>1, <2>3, RedefinedStars
<1>6. ASSUME NEW g \in Selectable, LineArgNone(g)
      PROVE  StarsHave(net')
  <2>1. g \in Present(net) /\ g \in {Universe} \cup Galaxy
    BY SelectableOnes
  <2>2. PICK n1 : n1 = ArgsGone(net, g)
    OBVIOUS
  <2>3. net' = TurnOff(n1, BoundToAny(n1, g))
    BY <1>6, <2>2 DEF LineArgNone, ArgsGone, BoundToAny, Leave, LeaveAfter
  <2> QED
    BY <1>1, <2>1, <2>2, <2>3, ArgNoneStars
<1>7. ASSUME NEW params \in BoundedSeq(Line, 1), NEW name \in Names, L_block(Universe, name, params)
      PROVE  StarsHave(net')
  <2>1. Universe \in Selectable /\ name \in (IF Universe = Universe THEN Names ELSE {starName})
    BY Paths DEF Selectable, Present
  <2> QED
    BY <1>7, <2>1, BlockKeepsStars
<1>8. ASSUME NEW params \in BoundedSeq(Line, 1), NEW g \in Selectable \ {Universe},
             L_block(g, starName, params)
      PROVE  StarsHave(net')
  <2>1. g \in Selectable /\ starName \in (IF g = Universe THEN Names ELSE {starName})
    OBVIOUS
  <2> QED
    BY <1>8, <2>1, BlockKeepsStars
<1>9. ASSUME NEW b \in Present(net) \ {Universe}, L_remove(b)
      PROVE  StarsHave(net')
  BY <1>1, <1>9, RemoveStars DEF L_remove, Leave, LeaveAfter
<1>10. CASE LineChp
  BY <1>10, ChpKeepsStars
<1>11. CASE UNCHANGED vars
  BY <1>11 DEF vars
<1> QED
  BY <1>2, <1>3, <1>4, <1>5, <1>6, <1>7, <1>8, <1>9, <1>10, <1>11 DEF Next

(* README.md:95, "Argument numbers may be noncontiguous.  However, when    *)
(* stored they become contiguous": whatever commands came before, what     *)
(* PrInfoAll writes of the universe and of its galaxies (the numbers       *)
(* through krn_argAssoc_A) LineLoad takes, KrnVerifyParams refuses none of *)
(* it, the tree is the same, and every star has the parameters it had: of  *)
(* the same type and value, and bound where they were bound.               *)
THEOREM StoredIsLoaded == Spec => []LoadedAsStored
<1>1. IInv /\ StarsHave(net) => LoadedAsStored
  BY LoadedBack DEF IInv, TypeOK
<1>2. Init => StarsHave(net)
  BY InitStars
<1>3. IInv /\ StarsHave(net) /\ [Next]_vars => StarsHave(net)'
  BY NextStars
<1> QED
  BY <1>1, <1>2, <1>3, Invariant, PTL DEF Spec
=============================================================================
