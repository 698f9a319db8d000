--------------------------------- MODULE MCRun ---------------------------------
(* Three stars in a universe U, a galaxy G inside it and a galaxy H inside *)
(* that one, in every division and in every order of the sibling lists:    *)
(* all networks without feedback, and feedback around b with and without a *)
(* sample to start with.                                                   *)
EXTENDS Run, SequencesExt

CONSTANTS a, b, c, U, G, H

MCTotal == [s \in Star |-> 3]

Forward == {L \in SUBSET {<<a, b>>, <<a, c>>, <<b, c>>} : Cardinality(L) >= 2}
Loop == {<<a, b>>, <<b, c>>, <<c, b>>}

Nets == {<<L, [l \in L |-> 0]>> : L \in Forward \cup {Loop}}
        \cup {<<Loop, [l \in Loop |-> IF l = <<c, b>> THEN 1 ELSE 0]>>}

Ends(L) == {l[2] : l \in L}

Even == [s \in Star |-> 1]
Doubling == [s \in Star |-> IF s = b THEN 2 ELSE 1]

(* No galaxy, or G with some of the stars.  The star a is a source, or it  *)
(* is wired to a galaxy input that nothing feeds.                          *)
Lists(S) == SetToSeqs(S)

Trees ==
    UNION {{[g \in Galaxy |-> IF g = U THEN o ELSE IF g = G THEN i ELSE <<>>] :
              o \in Lists((Star \ T) \cup (IF T = {} THEN {} ELSE {G})), i \in Lists(T)} :
           T \in SUBSET Star}

Shallow ==
    {[children |-> t, links |-> n[1], delay |-> n[2], wired |-> Ends(n[1]) \cup w,
      rate |-> Even] : t \in Trees, n \in Nets, w \in {{}, {a}}}

(* H is in G; b makes two samples of one. *)
DeepTrees ==
    UNION {{[g \in Galaxy |-> IF g = U THEN o ELSE IF g = G THEN m ELSE i] :
              o \in Lists({s \in Star : d[s] = U} \cup {G}),
              m \in Lists({s \in Star : d[s] = G} \cup {H}),
              i \in Lists({s \in Star : d[s] = H})} :
           d \in {e \in [Star -> Galaxy] : H \in {e[s] : s \in Star}}}

Deep ==
    {[children |-> t, links |-> n[1], delay |-> n[2], wired |-> Ends(n[1]),
      rate |-> Doubling] : t \in DeepTrees, n \in Nets}

MCTopologies == Shallow \cup Deep
=============================================================================
