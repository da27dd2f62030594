---------------------------- MODULE MCGenTables ----------------------------
(***************************************************************************)
(* GenTables over every way N code points can be paired up as upper- and   *)
(* lowercase letters, in any order; over these files with one more mapping *)
(* that goes one way only: a lowercase letter whose uppercase has another  *)
(* lowercase (as U+00B5), or an uppercase letter that shares its lowercase *)
(* with another one (as U+212A), wherever it stands; and over every file   *)
(* with up to four code points, whether Unicode could have it or not.      *)
(***************************************************************************)
EXTENDS GenTables

CONSTANT N

Letters == 1 .. N
Around == 0 .. N + 3

InverseOf(f) ==
    [l \in {f[u] : u \in DOMAIN f} |-> CHOOSE u \in DOMAIN f : f[u] = l]

RECURSIVE Pairings(_)
Pairings(S) ==
    IF S = {} THEN {<< >>}
    ELSE LET c == Least(S) IN
         Pairings(S \ {c})
           \cup UNION {UNION {{(c :> d) @@ f, (d :> c) @@ f} :
                                 f \in Pairings(S \ {c, d})} : d \in S \ {c}}

Symmetric(n) ==
    {[upper |-> f, lower |-> InverseOf(f)] : f \in Pairings(1 .. n) \ {<< >>}}

Uncased(d, n) == 1 .. n \ (DOMAIN d.upper \cup DOMAIN d.lower)

OneWayLower(n) ==
    UNION {{[d EXCEPT !.lower = @ @@ (l :> u)] :
               l \in Uncased(d, n), u \in DOMAIN d.upper} : d \in Symmetric(n)}

OneWayUpper(n) ==
    UNION {{[d EXCEPT !.upper = @ @@ (u :> l)] :
               u \in Uncased(d, n), l \in DOMAIN d.lower} : d \in Symmetric(n)}

(* Any mappings at all of a few code points. *)
Mappings(n) ==
    UNION {{f \in [S -> 1 .. n] : \A c \in S : f[c] # c} :
             S \in SUBSET (1 .. n)}
AnyMapping(n) == [upper : Mappings(n) \ {<< >>}, lower : Mappings(n)]

Files == Symmetric(N) \cup OneWayLower(N) \cup OneWayUpper(N) \cup AnyMapping(4)
====
