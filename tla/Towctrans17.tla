---------------------------- MODULE Towctrans17 ----------------------------
(***************************************************************************)
(* The tables of the towctrans.h in the repository, generated with the     *)
(* default options from the data of Unicode 17.                            *)
(***************************************************************************)
EXTENDS Integers

CASEMAP(u1, u2, l) == [upper |-> u1, lower |-> l - u1, len |-> u2 - u1 + 1]

CASELACE(u1, u2) == CASEMAP(u1, u2, u1 + 1)

casemaps == <<
    CASEMAP(\h0041, \h005A, \h0061), CASEMAP(\h00C0, \h00D6, \h00E0),
    CASEMAP(\h00D8, \h00DE, \h00F8), CASELACE(\h0100, \h012E),
    CASELACE(\h0132, \h0136), CASELACE(\h0139, \h0147),
    CASELACE(\h014A, \h0176), CASELACE(\h0179, \h017D),
    CASELACE(\h0182, \h0184), CASELACE(\h01A0, \h01A4),
    CASELACE(\h01B3, \h01B5), CASELACE(\h01CB, \h01DB),
    CASELACE(\h01DE, \h01EE), CASELACE(\h01F2, \h01F4),
    CASELACE(\h01F8, \h021E), CASELACE(\h0222, \h0232),
    CASELACE(\h0246, \h024E), CASELACE(\h0370, \h0372),
    CASEMAP(\h0388, \h038A, \h03AD), CASEMAP(\h038E, \h038F, \h03CD),
    CASEMAP(\h0391, \h03A1, \h03B1), CASEMAP(\h03A3, \h03AB, \h03C3),
    CASELACE(\h03D8, \h03EE), CASEMAP(\h0400, \h040F, \h0450),
    CASEMAP(\h0410, \h042F, \h0430), CASELACE(\h0460, \h0480),
    CASELACE(\h048A, \h04BE), CASELACE(\h04C1, \h04CD),
    CASELACE(\h04D0, \h052E), CASEMAP(\h0531, \h0556, \h0561),
    CASEMAP(\h13F0, \h13F5, \h13F8), CASELACE(\h1E00, \h1E94),
    CASELACE(\h1EA0, \h1EFE), CASEMAP(\h1F08, \h1F0F, \h1F00),
    CASEMAP(\h1F18, \h1F1D, \h1F10), CASEMAP(\h1F28, \h1F2F, \h1F20),
    CASEMAP(\h1F38, \h1F3F, \h1F30), CASEMAP(\h1F48, \h1F4D, \h1F40),
    CASEMAP(\h1F68, \h1F6F, \h1F60), CASEMAP(\h1F88, \h1F8F, \h1F80),
    CASEMAP(\h1F98, \h1F9F, \h1F90), CASEMAP(\h1FA8, \h1FAF, \h1FA0),
    CASEMAP(\h1FB8, \h1FB9, \h1FB0), CASEMAP(\h1FBA, \h1FBB, \h1F70),
    CASEMAP(\h1FC8, \h1FCB, \h1F72), CASEMAP(\h1FD8, \h1FD9, \h1FD0),
    CASEMAP(\h1FDA, \h1FDB, \h1F76), CASEMAP(\h1FE8, \h1FE9, \h1FE0),
    CASEMAP(\h1FEA, \h1FEB, \h1F7A), CASEMAP(\h1FFA, \h1FFB, \h1F7C),
    CASEMAP(\h2160, \h216F, \h2170), CASEMAP(\h24B6, \h24CF, \h24D0),
    CASEMAP(\h2C00, \h2C2F, \h2C30), CASELACE(\h2C67, \h2C6B),
    CASELACE(\h2C80, \h2CE2), CASELACE(\h2CEB, \h2CED),
    CASELACE(\hA640, \hA66C), CASELACE(\hA680, \hA69A),
    CASELACE(\hA722, \hA72E), CASELACE(\hA732, \hA76E),
    CASELACE(\hA779, \hA77B), CASELACE(\hA77E, \hA786),
    CASELACE(\hA790, \hA792), CASELACE(\hA796, \hA7A8),
    CASELACE(\hA7B4, \hA7C2), CASELACE(\hA7C7, \hA7C9),
    CASELACE(\hA7CC, \hA7DA), CASELACE(\hA7F5, \hA7F5),
    CASEMAP(\hFF21, \hFF3A, \hFF41) >>

casemapsl == <<
    CASEMAP(\h0189, \h018A, \h0256), CASEMAP(\h01B1, \h01B2, \h028A),
    CASEMAP(\h03FD, \h03FF, \h037B), CASEMAP(\h10A0, \h10C5, \h2D00),
    CASEMAP(\h13A0, \h13EF, \hAB70), CASEMAP(\h1C90, \h1CBA, \h10D0),
    CASEMAP(\h1CBD, \h1CBF, \h10FD), CASEMAP(\h1FF8, \h1FF9, \h1F78),
    CASEMAP(\h2C7E, \h2C7F, \h023F), CASEMAP(\h10400, \h10427, \h10428),
    CASEMAP(\h104B0, \h104D3, \h104D8), CASEMAP(\h10570, \h1057A, \h10597),
    CASEMAP(\h1057C, \h1058A, \h105A3), CASEMAP(\h1058C, \h10592, \h105B3),
    CASEMAP(\h10594, \h10595, \h105BB), CASEMAP(\h10C80, \h10CB2, \h10CC0),
    CASEMAP(\h10D50, \h10D65, \h10D70), CASEMAP(\h118A0, \h118BF, \h118C0),
    CASEMAP(\h16E40, \h16E5F, \h16E60), CASEMAP(\h16EA0, \h16EB8, \h16EBB),
    CASEMAP(\h1E900, \h1E921, \h1E922) >>

pairs == <<
    <<\h0049, \h0131>>, <<\h0053, \h017F>>, <<\h0130, \h0069>>,
    <<\h0178, \h00FF>>, <<\h0181, \h0253>>, <<\h0186, \h0254>>,
    <<\h0187, \h0188>>, <<\h018B, \h018C>>, <<\h018E, \h01DD>>,
    <<\h018F, \h0259>>, <<\h0190, \h025B>>, <<\h0191, \h0192>>,
    <<\h0193, \h0260>>, <<\h0194, \h0263>>, <<\h0196, \h0269>>,
    <<\h0197, \h0268>>, <<\h0198, \h0199>>, <<\h019C, \h026F>>,
    <<\h019D, \h0272>>, <<\h019F, \h0275>>, <<\h01A6, \h0280>>,
    <<\h01A7, \h01A8>>, <<\h01A9, \h0283>>, <<\h01AC, \h01AD>>,
    <<\h01AE, \h0288>>, <<\h01AF, \h01B0>>, <<\h01B7, \h0292>>,
    <<\h01B8, \h01B9>>, <<\h01BC, \h01BD>>, <<\h01C4, \h01C6>>,
    <<\h01C4, \h01C5>>, <<\h01C5, \h01C6>>, <<\h01C7, \h01C9>>,
    <<\h01C7, \h01C8>>, <<\h01C8, \h01C9>>, <<\h01CA, \h01CC>>,
    <<\h01CA, \h01CB>>, <<\h01F1, \h01F3>>, <<\h01F1, \h01F2>>,
    <<\h01F6, \h0195>>, <<\h01F7, \h01BF>>, <<\h0220, \h019E>>,
    <<\h023A, \h2C65>>, <<\h023B, \h023C>>, <<\h023D, \h019A>>,
    <<\h023E, \h2C66>>, <<\h0241, \h0242>>, <<\h0243, \h0180>>,
    <<\h0244, \h0289>>, <<\h0245, \h028C>>, <<\h0376, \h0377>>,
    <<\h037F, \h03F3>>, <<\h0386, \h03AC>>, <<\h038C, \h03CC>>,
    <<\h0392, \h03D0>>, <<\h0395, \h03F5>>, <<\h0398, \h03D1>>,
    <<\h0399, \h0345>>, <<\h0399, \h1FBE>>, <<\h039A, \h03F0>>,
    <<\h039C, \h00B5>>, <<\h03A0, \h03D6>>, <<\h03A1, \h03F1>>,
    <<\h03A3, \h03C2>>, <<\h03A6, \h03D5>>, <<\h03CF, \h03D7>>,
    <<\h03F4, \h03B8>>, <<\h03F7, \h03F8>>, <<\h03F9, \h03F2>>,
    <<\h03FA, \h03FB>>, <<\h0412, \h1C80>>, <<\h0414, \h1C81>>,
    <<\h041E, \h1C82>>, <<\h0421, \h1C83>>, <<\h0422, \h1C84>>,
    <<\h0422, \h1C85>>, <<\h042A, \h1C86>>, <<\h0462, \h1C87>>,
    <<\h04C0, \h04CF>>, <<\h10C7, \h2D27>>, <<\h10CD, \h2D2D>>,
    <<\h1C89, \h1C8A>>, <<\h1E60, \h1E9B>>, <<\h1E9E, \h00DF>>,
    <<\h1F59, \h1F51>>, <<\h1F5B, \h1F53>>, <<\h1F5D, \h1F55>>,
    <<\h1F5F, \h1F57>>, <<\h1FBC, \h1FB3>>, <<\h1FCC, \h1FC3>>,
    <<\h1FEC, \h1FE5>>, <<\h1FFC, \h1FF3>>, <<\h2126, \h03C9>>,
    <<\h212A, \h006B>>, <<\h212B, \h00E5>>, <<\h2132, \h214E>>,
    <<\h2183, \h2184>>, <<\h2C60, \h2C61>>, <<\h2C62, \h026B>>,
    <<\h2C63, \h1D7D>>, <<\h2C64, \h027D>>, <<\h2C6D, \h0251>>,
    <<\h2C6E, \h0271>>, <<\h2C6F, \h0250>>, <<\h2C70, \h0252>>,
    <<\h2C72, \h2C73>>, <<\h2C75, \h2C76>>, <<\h2CF2, \h2CF3>>,
    <<\hA64A, \h1C88>>, <<\hA77D, \h1D79>>, <<\hA78B, \hA78C>>,
    <<\hA78D, \h0265>>, <<\hA7AA, \h0266>>, <<\hA7AB, \h025C>>,
    <<\hA7AC, \h0261>>, <<\hA7AD, \h026C>>, <<\hA7AE, \h026A>>,
    <<\hA7B0, \h029E>>, <<\hA7B1, \h0287>>, <<\hA7B2, \h029D>>,
    <<\hA7B3, \hAB53>>, <<\hA7C4, \hA794>>, <<\hA7C5, \h0282>>,
    <<\hA7C6, \h1D8E>>, <<\hA7CB, \h0264>>, <<\hA7DC, \h019B>> >>

(* The exclusion test of _towcase: wc <= 0x40, wc > 0x1e943 and six ranges *)
(* of at least --min-excl code points, the largest first.                  *)
exclRanges == <<
    <<0, \h40>>, <<\h16ED4, \h1E8FF>>, <<\h2D2E, \hA63F>>,
    <<\h118E0, \h16E3F>>, <<\hABC0, \hFF20>>, <<\h10D86, \h1189F>>,
    <<\h0587, \h109F>> >>

lastCased == \h1E943

(* The titlecase digraph exceptions inside the loop over casemaps[].       *)
digraphUp == {\h01F3, \h01CC, \h01C9, \h01C6}

digraphLow == {\h01F1, \h01CA, \h01C4}

(* The Turkish exception: I <-> dotless i and dotted I <-> i.              *)
turkishPairs == {<<\h0049, \h0131>>, <<\h0130, \h0069>>}
=============================================================================
