----------------------------- MODULE MCCasemap ------------------------------
(***************************************************************************)
(* Casemap on five blocks of ten code points, for every file that can be   *)
(* made of the letters below: none to seven capitals in block 0, each with *)
(* a rule of its own, the titlecase letters 7, 8, 9 or another letter with *)
(* both mappings, and in block 2 other titlecase letters, or no letter     *)
(* that maps to itself.  With all capitals block 0 has more rules than     *)
(* slots, and so has block 1 with their small letters.                     *)
(***************************************************************************)
EXTENDS Casemap, TLC

Small == <<10, 12, 14, 16, 18, 11, 13>>
Capitals == 0 .. 6

\* 6 has no small letter of its own: 13 does not map back to it
CapitalFile(cs) ==
    <<[u \in cs |-> Small[u + 1]],
      [s \in {Small[u + 1] : u \in cs \ {6}} |->
         (CHOOSE u \in cs : Small[u + 1] = s)]>>

None == [n \in {} |-> n]
Title == <<(7 :> 9) @@ (8 :> 9), (8 :> 7) @@ (9 :> 7)>>
Between == <<(7 :> 8) @@ (8 :> 15), (8 :> 7) @@ (15 :> 8)>>

\* as Title, in another block
Again == <<(25 :> 27) @@ (26 :> 27), (26 :> 25) @@ (27 :> 25)>>

Full == <<[u \in 20 .. 29 |-> u + 10], [s \in 30 .. 39 |-> s - 10]>>

Joined(f, g) == <<f[1] @@ g[1], f[2] @@ g[2]>>

FilesMC ==
    {Joined(CapitalFile(cs), Joined(t, w)) :
        cs \in SUBSET Capitals,
        t \in {<<None, None>>, Title, Between},
        w \in {<<None, None>>, Full, Again}}
=============================================================================
