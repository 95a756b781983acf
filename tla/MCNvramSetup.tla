---------------------------- MODULE MCNvramSetup ----------------------------
(* Instances of NvramSetup for TLC: variables of no, two and three bytes;  *)
(* patch lists that are empty, good, repeated, conflicting and outlying.   *)
EXTENDS NvramSetup

MCContents == {<< >>} \cup [1 .. 2 -> Bytes] \cup [1 .. 3 -> Bytes]

MCLists ==
  { << >>, <<<<0, 1>>>>, <<<<0, 1>>, <<1, 2>>>>, <<<<1, 1>>, <<1, 1>>, <<0, 2>>>>,
    <<<<0, 1>>, <<0, 2>>>>, <<<<1, 0>>, <<2, 1>>>> }

MCConfigs ==
  [enabled : {TRUE}, doReboot : BOOLEAN, quiet : BOOLEAN,
   expectedSize : {0, 2}, patches : MCLists]
  \cup [enabled : {FALSE}, doReboot : {TRUE}, quiet : {TRUE},
        expectedSize : {0}, patches : {<<<<0, 1>>>>}]
=============================================================================
