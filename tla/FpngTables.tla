----------------------------- MODULE FpngTables -----------------------------
(***************************************************************************)
(* The tables fpng is compiled with: the Huffman codes of its one-pass     *)
(* encoders with the beginnings of the files they go with, and how Deflate *)
(* writes the length of a match.                                           *)
(***************************************************************************)
EXTENDS Integers, Sequences

\* The bytes a three-channel file begins with, and the first bits of the next one.
g_dyn_huff_3 ==
    <<120, 1, 237, 195, 3, 176, 110, 89, 122, 128, 225, 247, 251, 214, 218, 248, 113, 124, 173, 190, 109, 12,
      50, 201, 196, 182, 109, 219, 182, 109, 219, 182, 109, 219, 201, 36, 147, 153, 105, 235, 246, 53, 142,
      207, 143, 141, 181, 214, 151, 93, 117, 170, 78, 117, 117, 58, 206, 77, 210, 217, 169, 122>>
DYN_HUFF_3_BITBUF == <<30, 7>>   \* value and number of bits

\* Of symbols 0, 1, ...: m_code * 16 + m_code_size, or 0 for none.
g_dyn_huff_3_codes ==
    <<2, 36, 164, 229, 485, 406, 918, 86, 598, 55, 1079, 567, 1591, 184, 2232, 1208, 3256, 696, 2744, 1720,
      2169, 6265, 1145, 5241, 3193, 7289, 633, 4729, 2681, 6777, 1657, 2938, 5753, 11130, 7034, 15226, 1914,
      10106, 6010, 14202, 3962, 12154, 8058, 15611, 31995, 763, 17147, 19196, 8955, 51964, 11004, 25339,
      43772, 27388, 60156, 6908, 39676, 23292, 56060, 15100, 47868, 31484, 64252, 1788, 34556, 18172, 50940,
      9980, 42748, 26364, 59132, 5884, 38652, 22268, 55036, 14076, 46844, 30460, 63228, 3836, 36604, 20220,
      52988, 12028, 44796, 28412, 61180, 7932, 40700, 24316, 57084, 16124, 48892, 32508, 65276, 508, 33276,
      16892, 49660, 8700, 41468, 25084, 57852, 4604, 37372, 20988, 53756, 12796, 45564, 29180, 61948, 2556,
      35324, 18940, 51708, 10748, 43516, 27132, 59900, 6652, 39420, 23036, 55804, 14844, 47612, 31228, 63996,
      1532, 34300, 17916, 50684, 9724, 42492, 26108, 58876, 5628, 38396, 22012, 54780, 13820, 46588, 30204,
      62972, 3580, 36348, 19964, 52732, 11772, 44540, 28156, 60924, 7676, 40444, 24060, 56828, 15868, 48636,
      32252, 65020, 1020, 33788, 17404, 50172, 9212, 41980, 25596, 58364, 5116, 37884, 21500, 54268, 13308,
      46076, 29692, 62460, 3068, 35836, 19452, 52220, 11260, 44028, 27644, 60412, 7164, 39932, 23548, 56316,
      15356, 48124, 31740, 64508, 2044, 34812, 18428, 51196, 10236, 43004, 26620, 59388, 6140, 38908, 22524,
      55292, 14332, 47100, 4859, 30716, 63484, 21243, 4092, 13051, 29435, 2811, 16250, 250, 8442, 4346, 12538,
      2298, 10490, 6394, 14586, 1274, 9466, 3705, 5370, 7801, 377, 4473, 2425, 6521, 1401, 5497, 3449, 7545,
      889, 3768, 440, 2488, 1464, 3512, 952, 3000, 1976, 311, 1335, 823, 1847, 342, 854, 214, 726, 21, 277,
      149, 100, 36860, 470, 0, 0, 4024, 0, 0, 120, 0, 13562, 0, 3322, 20476, 11514, 53244, 12284, 45052,
      28668, 61436, 8188, 40956, 24572, 4985, 57340, 16380, 49148, 7418, 32764, 982, 65532, 0, 0>>

\* The same for four channels.
g_dyn_huff_4 ==
    <<120, 1, 229, 196, 99, 180, 37, 103, 218, 128, 225, 251, 121, 171, 106, 243, 216, 231, 180, 109, 196,
      182, 51, 51, 73, 6, 201, 216, 182, 109, 219, 182, 17, 140, 98, 219, 102, 219, 60, 125, 172, 205, 170,
      122, 159, 111, 213, 143, 179, 214, 94, 189, 58, 153, 104, 166, 103, 190, 247, 199, 117>>
DYN_HUFF_4_BITBUF == <<1, 2>>

g_dyn_huff_4_codes ==
    <<2, 36, 101, 486, 998, 22, 663, 1687, 407, 1431, 919, 1943, 1880, 3928, 216, 2264, 1240, 3288, 728, 2776,
      1752, 3800, 472, 2520, 1496, 3544, 984, 1337, 5433, 3385, 7481, 825, 4921, 2873, 6969, 1849, 5945, 3897,
      7993, 185, 4281, 2233, 6329, 1209, 5305, 3257, 7353, 697, 4793, 122, 8314, 4218, 12410, 2170, 10362,
      6266, 14458, 1146, 9338, 5242, 13434, 3194, 11386, 7290, 15482, 634, 8826, 4730, 12922, 2682, 10874,
      6778, 14970, 1658, 9850, 7419, 23803, 15611, 5754, 13946, 3706, 31995, 763, 17147, 8955, 11898, 7802,
      25339, 4859, 21243, 13051, 29435, 2811, 19195, 11003, 27387, 6907, 23291, 15099, 31483, 1787, 18171,
      9979, 26363, 5883, 22267, 14075, 30459, 3835, 20219, 12027, 28411, 7931, 24315, 16123, 32507, 507,
      16891, 8699, 25083, 4603, 20987, 12795, 29179, 2555, 18939, 10747, 27131, 6651, 23035, 14843, 31227,
      1531, 17915, 9723, 26107, 5627, 22011, 13819, 30203, 3579, 19963, 11771, 28155, 7675, 24059, 15867,
      32251, 1019, 17403, 9211, 25595, 5115, 21499, 13307, 29691, 3067, 19451, 11259, 27643, 7163, 23547,
      15355, 31739, 2043, 18427, 10235, 26619, 6139, 15994, 378, 8570, 4474, 22523, 14331, 30715, 4091, 20475,
      12666, 2426, 10618, 6522, 14714, 1402, 9594, 5498, 13690, 3450, 11642, 7546, 15738, 890, 9082, 4986,
      13178, 2938, 11130, 7034, 15226, 1914, 10106, 6010, 14202, 3962, 12154, 8058, 16250, 250, 8442, 4346,
      12538, 2298, 10490, 6394, 2745, 6841, 1721, 5817, 3769, 7865, 441, 4537, 2489, 6585, 1465, 5561, 3513,
      7609, 953, 5049, 3001, 7097, 3032, 1977, 2008, 4056, 56, 2104, 1080, 3128, 568, 2616, 1592, 3640, 312,
      87, 1111, 599, 1623, 343, 1367, 534, 278, 790, 357, 164, 32764, 0, 150, 0, 0, 0, 2360, 0, 0, 855, 0,
      6073, 0, 4025, 14586, 1274, 12283, 9466, 5370, 13562, 3322, 11514, 28667, 8187, 8121, 24571, 16379,
      65532, 229, 0, 0, 0>>

\* The length symbols 257, 258, ...: the shortest match of each and its extra bits.
s_length_range == <<3,4,5,6, 7,8,9,10, 11,13,15,17, 19,23,27,31, 35,43,51,59, 67,83,99,115,
                    131,163,195,227, 258, 0,0>>
s_length_extra == <<0,0,0,0, 0,0,0,0, 1,1,1,1, 2,2,2,2, 3,3,3,3, 4,4,4,4, 5,5,5,5, 0, 0,0>>

\* The encoder's tables, by the length of the match less three.
g_defl_len_extra(adj) ==
    IF adj < 8 \/ adj = 255 THEN 0 ELSE CHOOSE e \in 1 .. 5 : adj \in 4 * 2^e .. 8 * 2^e - 1
g_defl_len_sym(adj) ==
    LET e == g_defl_len_extra(adj)
    IN  CASE adj < 8   -> 257 + adj
          [] adj = 255 -> 285
          [] OTHER     -> 261 + 4 * e + ((adj \div 2^e) % 4)
=============================================================================
