--------------------------- MODULE MCPasswordGate ---------------------------
(* Digests for PasswordGate: one that Hash emits, the same with its         *)
(* parameters in another order, and ones that differ in a single respect.   *)
EXTENDS PasswordGate

MCField(n, v) == [name |-> n, value |-> v]

Emitted ==
    [length |-> 118, parts |-> 6, first |-> "", algorithm |-> "argon2id",
     version |-> MCField("v", 19),
     fields |-> <<MCField("m", 65536), MCField("t", 3), MCField("p", 4)>>,
     salt |-> 32, key |-> 32]

OtherFields ==
    {<<MCField("p", 4), MCField("m", 65536), MCField("t", 3)>>,
     <<MCField("m", 65536), MCField("t", 3)>>,
     <<MCField("m", 65536), MCField("m", 65536), MCField("t", 3)>>,
     <<MCField("m", 65536), MCField("t", 3), MCField("x", 4)>>}
    \cup {[Emitted.fields EXCEPT ![k].value = v] :
              k \in 1..3, v \in {0, 3, 4, 5, 260, 65537, 131072, Malformed}}

MCDigests ==
    {Emitted}
    \cup {[Emitted EXCEPT !.fields = f] : f \in OtherFields}
    \cup {[Emitted EXCEPT !.length = l] : l \in {0, 128, 129}}
    \cup {[Emitted EXCEPT !.parts = 5], [Emitted EXCEPT !.first = "x"],
          [Emitted EXCEPT !.algorithm = "argon2i"],
          [Emitted EXCEPT !.version.value = 16],
          [Emitted EXCEPT !.salt = 16], [Emitted EXCEPT !.key = Malformed]}

=============================================================================
