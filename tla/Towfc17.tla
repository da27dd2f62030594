------------------------------ MODULE Towfc17 ------------------------------
(***************************************************************************)
(* The tables and exceptions of the towfc.h in the repository, generated   *)
(* from the data of Unicode 17.                                            *)
(***************************************************************************)
EXTENDS Integers

tbl2 == <<
    <<\h00DF, \h0073, \h0073>>, <<\h0130, \h0069, \h0307>>,
    <<\h0149, \h02BC, \h006E>>, <<\h01F0, \h006A, \h030C>>,
    <<\h0587, \h0565, \h0582>>, <<\h1E96, \h0068, \h0331>>,
    <<\h1E97, \h0074, \h0308>>, <<\h1E98, \h0077, \h030A>>,
    <<\h1E99, \h0079, \h030A>>, <<\h1E9A, \h0061, \h02BE>>,
    <<\h1E9E, \h0073, \h0073>>, <<\h1F50, \h03C5, \h0313>>,
    <<\h1F80, \h1F00, \h03B9>>, <<\h1F81, \h1F01, \h03B9>>,
    <<\h1F82, \h1F02, \h03B9>>, <<\h1F83, \h1F03, \h03B9>>,
    <<\h1F84, \h1F04, \h03B9>>, <<\h1F85, \h1F05, \h03B9>>,
    <<\h1F86, \h1F06, \h03B9>>, <<\h1F87, \h1F07, \h03B9>>,
    <<\h1F88, \h1F00, \h03B9>>, <<\h1F89, \h1F01, \h03B9>>,
    <<\h1F8A, \h1F02, \h03B9>>, <<\h1F8B, \h1F03, \h03B9>>,
    <<\h1F8C, \h1F04, \h03B9>>, <<\h1F8D, \h1F05, \h03B9>>,
    <<\h1F8E, \h1F06, \h03B9>>, <<\h1F8F, \h1F07, \h03B9>>,
    <<\h1F90, \h1F20, \h03B9>>, <<\h1F91, \h1F21, \h03B9>>,
    <<\h1F92, \h1F22, \h03B9>>, <<\h1F93, \h1F23, \h03B9>>,
    <<\h1F94, \h1F24, \h03B9>>, <<\h1F95, \h1F25, \h03B9>>,
    <<\h1F96, \h1F26, \h03B9>>, <<\h1F97, \h1F27, \h03B9>>,
    <<\h1F98, \h1F20, \h03B9>>, <<\h1F99, \h1F21, \h03B9>>,
    <<\h1F9A, \h1F22, \h03B9>>, <<\h1F9B, \h1F23, \h03B9>>,
    <<\h1F9C, \h1F24, \h03B9>>, <<\h1F9D, \h1F25, \h03B9>>,
    <<\h1F9E, \h1F26, \h03B9>>, <<\h1F9F, \h1F27, \h03B9>>,
    <<\h1FA0, \h1F60, \h03B9>>, <<\h1FA1, \h1F61, \h03B9>>,
    <<\h1FA2, \h1F62, \h03B9>>, <<\h1FA3, \h1F63, \h03B9>>,
    <<\h1FA4, \h1F64, \h03B9>>, <<\h1FA5, \h1F65, \h03B9>>,
    <<\h1FA6, \h1F66, \h03B9>>, <<\h1FA7, \h1F67, \h03B9>>,
    <<\h1FA8, \h1F60, \h03B9>>, <<\h1FA9, \h1F61, \h03B9>>,
    <<\h1FAA, \h1F62, \h03B9>>, <<\h1FAB, \h1F63, \h03B9>>,
    <<\h1FAC, \h1F64, \h03B9>>, <<\h1FAD, \h1F65, \h03B9>>,
    <<\h1FAE, \h1F66, \h03B9>>, <<\h1FAF, \h1F67, \h03B9>>,
    <<\h1FB2, \h1F70, \h03B9>>, <<\h1FB3, \h03B1, \h03B9>>,
    <<\h1FB4, \h03AC, \h03B9>>, <<\h1FB6, \h03B1, \h0342>>,
    <<\h1FBC, \h03B1, \h03B9>>, <<\h1FC2, \h1F74, \h03B9>>,
    <<\h1FC3, \h03B7, \h03B9>>, <<\h1FC4, \h03AE, \h03B9>>,
    <<\h1FC6, \h03B7, \h0342>>, <<\h1FCC, \h03B7, \h03B9>>,
    <<\h1FD6, \h03B9, \h0342>>, <<\h1FE4, \h03C1, \h0313>>,
    <<\h1FE6, \h03C5, \h0342>>, <<\h1FF2, \h1F7C, \h03B9>>,
    <<\h1FF3, \h03C9, \h03B9>>, <<\h1FF4, \h03CE, \h03B9>>,
    <<\h1FF6, \h03C9, \h0342>>, <<\h1FFC, \h03C9, \h03B9>>,
    <<\hFB00, \h0066, \h0066>>, <<\hFB01, \h0066, \h0069>>,
    <<\hFB02, \h0066, \h006C>>, <<\hFB05, \h0073, \h0074>>,
    <<\hFB06, \h0073, \h0074>>, <<\hFB13, \h0574, \h0576>>,
    <<\hFB14, \h0574, \h0565>>, <<\hFB15, \h0574, \h056B>>,
    <<\hFB16, \h057E, \h0576>>, <<\hFB17, \h0574, \h056D>> >>

tbl3 == <<
    <<\h0390, \h03B9, \h0308, \h0301>>, <<\h03B0, \h03C5, \h0308, \h0301>>,
    <<\h1F52, \h03C5, \h0313, \h0300>>, <<\h1F54, \h03C5, \h0313, \h0301>>,
    <<\h1F56, \h03C5, \h0313, \h0342>>, <<\h1FB7, \h03B1, \h0342, \h03B9>>,
    <<\h1FC7, \h03B7, \h0342, \h03B9>>, <<\h1FD2, \h03B9, \h0308, \h0300>>,
    <<\h1FD3, \h03B9, \h0308, \h0301>>, <<\h1FD7, \h03B9, \h0308, \h0342>>,
    <<\h1FE2, \h03C5, \h0308, \h0300>>, <<\h1FE3, \h03C5, \h0308, \h0301>>,
    <<\h1FE7, \h03C5, \h0308, \h0342>>, <<\h1FF7, \h03C9, \h0342, \h03B9>>,
    <<\hFB03, \h0066, \h0066, \h0069>>, <<\hFB04, \h0066, \h0066, \h006C>> >>

(* The exceptions of _towfc_single(): three groups that are switched over, *)
(* and the Cherokee letters, which are moved by a distance.                *)
Switched(first, last, cases) ==
    [first |-> first, last |-> last, arith |-> FALSE, delta |-> 0,
     cases |-> [c \in {p[1] : p \in cases} |->
                   (CHOOSE p \in cases : p[1] = c)[2]]]

Shifted(first, last, delta) ==
    [first |-> first, last |-> last, arith |-> TRUE, delta |-> delta,
     cases |-> << >>]

groups == {
    Switched(\h00B5, \h03F5,
        {<<\h00B5, \h03BC>>, <<\h017F, \h0073>>, <<\h0345, \h03B9>>,
         <<\h03C2, \h03C3>>, <<\h03D0, \h03B2>>, <<\h03D1, \h03B8>>,
         <<\h03D5, \h03C6>>, <<\h03D6, \h03C0>>, <<\h03F0, \h03BA>>,
         <<\h03F1, \h03C1>>, <<\h03F5, \h03B5>>}),
    Shifted(\h13F8, \h13FD, -8),
    Switched(\h1C80, \h1C88,
        {<<\h1C80, \h0432>>, <<\h1C81, \h0434>>, <<\h1C82, \h043E>>,
         <<\h1C83, \h0441>>, <<\h1C84, \h0442>>, <<\h1C85, \h0442>>,
         <<\h1C86, \h044A>>, <<\h1C87, \h0463>>, <<\h1C88, \hA64B>>}),
    Switched(\h1E9B, \h1FBE, {<<\h1E9B, \h1E61>>, <<\h1FBE, \h03B9>>}),
    Shifted(\hAB70, \hABBF, \h13A0 - \hAB70) }
=============================================================================
