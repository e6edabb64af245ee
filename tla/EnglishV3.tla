------------------------------ MODULE EnglishV3 ------------------------------
(***************************************************************************)
(* The faceplate english_v3.h: 32 words and the 288 displays, one for each  *)
(* five minutes, that light them.                                           *)
(***************************************************************************)
EXTENDS Integers

(* WORDS: the start column, row and length of each word, numbered from 0 as *)
(* getword does.                                                            *)
Faceplate ==
  << << 0,0,2>>, << 3,0,2>>, << 6,0,3>>, << 9,0,6>>, << 9,0,7>>, << 0,1,4>>,
     << 5,1,4>>, << 6,1,1>>, << 9,1,7>>, << 0,2,4>>, << 3,2,2>>, << 8,2,3>>,
     << 6,2,3>>, << 0,3,5>>, << 0,4,4>>, << 4,4,4>>, <<10,3,3>>, << 8,4,5>>,
     <<10,2,5>>, <<12,4,4>>, <<13,3,3>>, << 4,3,6>>, << 0,5,6>>, << 7,5,2>>,
     <<10,5,2>>, <<13,5,3>>, << 0,6,8>>, << 3,6,5>>, << 8,6,7>>, << 0,7,9>>,
     << 5,7,4>>, << 9,7,7>> >>

EnglishWords ==
  [i \in 0..31 |-> [col |-> Faceplate[i + 1][1], row |-> Faceplate[i + 1][2],
                    len |-> Faceplate[i + 1][3]]]

(* DISPLAYS, its bits read as sets of words: "it is", how many minutes past *)
(* or to, which hour, and the part of the day.                              *)
MinuteWords ==
  << {}, {5, 9}, {2, 9}, {7, 8, 9}, {3, 9}, {4, 5, 9}, {6, 9}, {4, 5, 10},
     {3, 10}, {7, 8, 10}, {2, 10}, {5, 10} >>

HourWord(i) ==   \* from half past on it is so many minutes to the next hour
  LET hour == (IF i % 12 >= 7 THEN i \div 12 + 1 ELSE i \div 12) % 12
  IN  IF hour = 0 THEN 22 ELSE 10 + hour

DayWords(i) ==
  CASE i \in 0..6 \/ i >= 286 -> {26}   \* midnight
    [] i \in 7..138   -> {24, 25, 28}   \* in the morning
    [] i \in 139..149 -> {30}           \* noon
    [] i \in 150..215 -> {24, 25, 29}   \* in the afternoon
    [] i \in 216..263 -> {24, 25, 31}   \* in the evening
    [] i \in 264..285 -> {23, 27}       \* at night

EnglishDisplays ==
  [i \in 0..287 |->
     {0, 1, HourWord(i)} \cup MinuteWords[(i % 12) + 1] \cup DayWords(i)]
=============================================================================
