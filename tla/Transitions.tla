----------------------------- MODULE Transitions -----------------------------
(***************************************************************************)
(* The transitions of clock() that move words: word_drop and                *)
(* wipe_around_transition, a frame (a call of FastLED.show) at a time.  The *)
(* arrays mask and wipe are the sets of the pixels whose entry is true, a   *)
(* pixel being <<column, row>>; colours are left out.  TheMatrix, the third *)
(* transition, is not modelled here.                                        *)
(***************************************************************************)
EXTENDS Integers, FiniteSets

CONSTANTS MatrixWidth, MatrixHeight,
          CenterCol, CenterRow,   \* cx and cy of wipe_around
          WORDS, DISPLAYS,        \* the faceplate's tables
          Steps                   \* the changes <<last_time_inc, time_inc>>

Incs == DOMAIN DISPLAYS
Panel == (0..(MatrixWidth - 1)) \X (0..(MatrixHeight - 1))

(* setWordMask with the word's row replaced: the pixels off the panel are   *)
(* left out by setPixelMask, among them those of the row the last step of   *)
(* word_drop_out names.                                                     *)
(* Mutants: no such test, and XY gives place 0 for what is off the panel;   *)
(* or, without XY's test too, a place outside the array is written.         *)
Span(w, row) ==
  {<<col, row>> : col \in WORDS[w].col..(WORDS[w].col + WORDS[w].len - 1)}
PixelsAt_NoRowTest(w, row) ==
  {IF p \in Panel THEN p ELSE <<0, 0>> : p \in Span(w, row)}
PixelsAt_OffThePanel(w, row) == Span(w, row)
PixelsAt(w, row) == Span(w, row) \cap Panel

WordPixels(w) == PixelsAt(w, WORDS[w].row)

(* get_time_display on a cleared mask.                                      *)
TimeDisplay(inc) == UNION {WordPixels(w) : w \in DISPLAYS[inc]}

(* A word has a place on the panel, and a display has some words, which     *)
(* stay clear of each other and of the edges.  Midnight is increment 0.     *)
ASSUME FaceplateAssumption ==
  /\ MatrixWidth \in Nat /\ MatrixHeight \in Nat
  /\ CenterCol \in Int /\ CenterRow \in Int
  /\ DOMAIN WORDS \subseteq Nat
  /\ \A w \in DOMAIN WORDS :
       /\ WORDS[w].col \in Nat /\ WORDS[w].row \in Nat /\ WORDS[w].len \in Nat \ {0}
       /\ Span(w, WORDS[w].row) \subseteq Panel
  /\ 0 \in Incs
  /\ \A inc \in Incs :
       /\ DISPLAYS[inc] \subseteq DOMAIN WORDS /\ DISPLAYS[inc] # {}
       /\ IsFiniteSet(DISPLAYS[inc])
       /\ \A v, w \in DISPLAYS[inc] : v # w => WordPixels(v) \cap WordPixels(w) = {}
  /\ Steps \subseteq Incs \X Incs

(* The order in which theta meets the pixels: atan2(row - cy, col - cx)     *)
(* grows from -pi; only the pixels left of the centre, at pi, come last.    *)
Sector(p) ==
  LET dx == p[1] - CenterCol
      dy == p[2] - CenterRow
  IN  CASE dy < 0 /\ dx < 0  -> 1
        [] dy < 0 /\ dx >= 0 -> 2
        [] dy = 0 /\ dx >= 0 -> 3
        [] dy > 0 /\ dx >= 0 -> 4
        [] dy > 0 /\ dx < 0  -> 5
        [] dy = 0 /\ dx < 0  -> 6

(* The values of theta, from below -pi to above pi.  The condition of the   *)
(* loop, theta < 3.14 + dtheta, ends it one step above pi: the sum of the   *)
(* float steps comes to 3.31444407, the limit to 3.31444444.                *)
(* Mutant: the loop ends at 3.14.                                           *)
LastTheta_AtPi == 6
LastTheta == 7
Swept(theta) == {p \in Panel : Sector(p) < theta}

VARIABLES
  pc,             \* where the thread is; each value but "clock" draws frames
  mask, wipe,     \* the arrays
  shown,          \* the pixels lit at the last FastLED.show
  last_time_inc, time_inc,
  todo,           \* the words the loop of word_drop_out or _in has not done
  row,            \* its loop variable rr
  theta

vars == <<pc, mask, wipe, shown, last_time_inc, time_inc, todo, row, theta>>

(* The loops over bytes and bits meet the words in ascending order.         *)
Word == CHOOSE w \in todo : \A v \in todo : w <= v
NextWord(s) == CHOOSE w \in s : \A v \in s : w <= v

(* Power-up: both arrays false, last_time_inc 0.                            *)
Init ==
  /\ pc = "clock"
  /\ mask = {} /\ wipe = {} /\ shown = {}
  /\ last_time_inc = 0 /\ time_inc = 0
  /\ todo = {} /\ row = 0 /\ theta = 0

-----------------------------------------------------------------------------
(* word_drop                                                                *)

StartWordDrop ==
  /\ pc = "clock"
  /\ \E inc \in Incs :
       /\ <<last_time_inc, inc>> \in Steps /\ inc # last_time_inc
       /\ time_inc' = inc
  /\ wipe' = mask
  /\ todo' = DISPLAYS[last_time_inc]
  /\ row' = WORDS[NextWord(todo')].row
  /\ pc' = "out_on"
  /\ UNCHANGED <<mask, shown, last_time_inc, theta>>

(* The first inner loop of word_drop_out: the trail of the word grows down  *)
(* to row 8, one below the panel; then the word leaves mask.                *)
OutOn ==
  /\ pc = "out_on"
  /\ wipe' = wipe \cup PixelsAt(Word, row)
  /\ shown' = mask \cup wipe'
  /\ \/ /\ row < MatrixHeight
        /\ row' = row + 1
        /\ UNCHANGED <<mask, pc>>
     \/ /\ row = MatrixHeight
        /\ mask' = mask \ WordPixels(Word)
        /\ row' = WORDS[Word].row
        /\ pc' = "out_off"
  /\ UNCHANGED <<last_time_inc, time_inc, todo, theta>>

(* The second takes the trail down again.  After the last word              *)
(* word_drop_in clears both arrays.                                         *)
(* Mutant: it starts one row below the word.                                *)
OutOff_FromNextRow ==
  /\ pc = "out_off"
  /\ wipe' = IF row = WORDS[Word].row /\ row < MatrixHeight
               THEN wipe ELSE wipe \ PixelsAt(Word, row)
  /\ shown' = mask \cup wipe'
  /\ \/ row < MatrixHeight /\ row' = row + 1 /\ UNCHANGED <<pc, todo>>
     \/ /\ row = MatrixHeight
        /\ todo' = todo \ {Word}
        /\ row' = IF todo' = {} THEN 0 ELSE WORDS[NextWord(todo')].row
        /\ pc' = IF todo' = {} THEN "in" ELSE "out_on"
  /\ UNCHANGED <<mask, last_time_inc, time_inc, theta>>

OutOff ==
  /\ pc = "out_off"
  /\ wipe' = wipe \ PixelsAt(Word, row)
  /\ shown' = mask \cup wipe'
  /\ \/ /\ row < MatrixHeight
        /\ row' = row + 1
        /\ UNCHANGED <<pc, todo>>
     \/ /\ row = MatrixHeight
        /\ todo' = todo \ {Word}
        /\ row' = IF todo' = {} THEN 0 ELSE WORDS[NextWord(todo')].row
        /\ pc' = IF todo' = {} THEN "in" ELSE "out_on"
  /\ UNCHANGED <<mask, last_time_inc, time_inc, theta>>

StartIn ==
  /\ pc = "in"
  /\ mask' = {} /\ wipe' = {}
  /\ todo' = DISPLAYS[time_inc]
  /\ row' = 0
  /\ pc' = "in_on"
  /\ UNCHANGED <<shown, last_time_inc, time_inc, theta>>

(* The end of a word in word_drop_in.  Mutant: the loop over the words does *)
(* not get on.                                                              *)
InNextWord_SameWord ==
  /\ todo' = todo
  /\ row' = 0
  /\ pc' = "in_on"

InNextWord ==
  /\ todo' = todo \ {Word}
  /\ row' = 0
  /\ pc' = IF todo' = {} THEN "draw" ELSE "in_on"

(* The first inner loop of word_drop_in: a trail from the top to the word's *)
(* row; then the word enters mask.  A word in row 0 has no trail to remove. *)
(* Mutant: the word does not enter mask.                                    *)
InOn_NotKept ==
  /\ pc = "in_on"
  /\ wipe' = wipe \cup PixelsAt(Word, row)
  /\ shown' = mask \cup wipe'
  /\ UNCHANGED mask
  /\ \/ row < WORDS[Word].row /\ row' = row + 1 /\ UNCHANGED <<pc, todo>>
     \/ /\ row = WORDS[Word].row
        /\ \/ row > 0 /\ row' = 0 /\ pc' = "in_off" /\ UNCHANGED todo
           \/ row = 0 /\ InNextWord
  /\ UNCHANGED <<last_time_inc, time_inc, theta>>

InOn ==
  /\ pc = "in_on"
  /\ wipe' = wipe \cup PixelsAt(Word, row)
  /\ shown' = mask \cup wipe'
  /\ \/ /\ row < WORDS[Word].row
        /\ row' = row + 1
        /\ UNCHANGED <<mask, pc, todo>>
     \/ /\ row = WORDS[Word].row
        /\ mask' = mask \cup WordPixels(Word)
        /\ \/ row > 0 /\ row' = 0 /\ pc' = "in_off" /\ UNCHANGED todo
           \/ row = 0 /\ InNextWord
  /\ UNCHANGED <<last_time_inc, time_inc, theta>>

InOff ==
  /\ pc = "in_off"
  /\ wipe' = wipe \ PixelsAt(Word, row)
  /\ shown' = mask \cup wipe'
  /\ \/ /\ row < WORDS[Word].row - 1
        /\ row' = row + 1
        /\ UNCHANGED <<pc, todo>>
     \/ /\ row = WORDS[Word].row - 1
        /\ InNextWord
  /\ UNCHANGED <<mask, last_time_inc, time_inc, theta>>

-----------------------------------------------------------------------------
(* wipe_around_transition                                                   *)

(* Mutant: the mask is not set to the words of last_time_inc.               *)
StartWipeAround_KeepMask ==
  /\ pc = "clock"
  /\ \E inc \in Incs :
       /\ <<last_time_inc, inc>> \in Steps /\ inc # last_time_inc
       /\ time_inc' = inc
       /\ mask' = TimeDisplay(inc)
  /\ wipe' = {}
  /\ theta' = 0
  /\ pc' = "sweep_on"
  /\ UNCHANGED <<shown, last_time_inc, todo, row>>

StartWipeAround ==
  /\ pc = "clock"
  /\ \E inc \in Incs :
       /\ <<last_time_inc, inc>> \in Steps /\ inc # last_time_inc
       /\ time_inc' = inc
  /\ mask' = TimeDisplay(last_time_inc)
  /\ wipe' = {}
  /\ theta' = 0
  /\ pc' = "sweep_on"
  /\ UNCHANGED <<shown, last_time_inc, todo, row>>

(* wipe_around(ON); after its last frame mask and wipe are set for the      *)
(* second sweep.                                                            *)
SweepOn ==
  /\ pc = "sweep_on"
  /\ shown' = wipe \cup Swept(theta) \cup mask
  /\ \/ /\ theta < LastTheta
        /\ wipe' = wipe \cup Swept(theta)
        /\ theta' = theta + 1
        /\ UNCHANGED <<mask, pc>>
     \/ /\ theta = LastTheta
        /\ mask' = TimeDisplay(time_inc)
        /\ wipe' = Panel
        /\ theta' = 0
        /\ pc' = "sweep_off"
  /\ UNCHANGED <<last_time_inc, time_inc, todo, row>>

SweepOff ==
  /\ pc = "sweep_off"
  /\ wipe' = wipe \ Swept(theta)
  /\ shown' = wipe' \cup mask
  /\ \/ /\ theta < LastTheta
        /\ theta' = theta + 1
        /\ UNCHANGED pc
     \/ /\ theta = LastTheta
        /\ theta' = 0
        /\ pc' = "draw"
  /\ UNCHANGED <<mask, last_time_inc, time_inc, todo, row>>

-----------------------------------------------------------------------------
(* The end of clock(): after a transition, or when time_inc has not changed. *)
Draw ==
  /\ \/ pc = "draw"
     \/ pc = "clock" /\ time_inc = last_time_inc
  /\ last_time_inc' = time_inc
  /\ mask' = TimeDisplay(time_inc)
  /\ shown' = mask'
  /\ pc' = "clock"
  /\ UNCHANGED <<wipe, time_inc, todo, row, theta>>

WordDrop == StartWordDrop \/ OutOn \/ OutOff \/ StartIn \/ InOn \/ InOff
WipeAround == StartWipeAround \/ SweepOn \/ SweepOff
Next == WordDrop \/ WipeAround \/ Draw

Spec == Init /\ [][Next]_vars
-----------------------------------------------------------------------------
(* Properties *)

Column(w) == {p \in Panel : WORDS[w].col <= p[1]
                              /\ p[1] < WORDS[w].col + WORDS[w].len}
PixelsOf(s) == UNION {WordPixels(w) : w \in s}

(* mask has these words; or it is empty, as it is after power-up, when      *)
(* last_time_inc is 0.                                                      *)
Lit(s) == mask = PixelsOf(s) \/ (mask = {} /\ last_time_inc = 0)

(* The arrays hold pixels of the panel and the loop variables stay in range. *)
TypeOK ==
  /\ pc \in {"clock", "out_on", "out_off", "in", "in_on", "in_off", "sweep_on",
             "sweep_off", "draw"}
  /\ mask \subseteq Panel /\ wipe \subseteq Panel /\ shown \subseteq Panel
  /\ last_time_inc \in Incs /\ time_inc \in Incs
  /\ todo \subseteq DOMAIN WORDS
  /\ row \in 0..MatrixHeight
  /\ theta \in 0..LastTheta

(* While words drop out, those whose turn has not come stay lit in full,    *)
(* although a falling word's trail is cleared over them; and no pixel is    *)
(* lit that is neither theirs nor under the falling word.                   *)
WaitingWordsStay ==
  pc \in {"out_on", "out_off"} =>
    /\ Lit(IF pc = "out_on" THEN todo ELSE todo \ {Word})
    /\ mask \subseteq shown
    /\ shown \subseteq mask \cup WordPixels(Word) \cup Column(Word)

(* word_drop_out leaves nothing lit: it ends where the new words begin.     *)
NothingLeftBehind == pc = "in" => shown = {}

(* While words drop in, those that have landed stay lit in full, and no     *)
(* pixel is lit that is neither theirs nor over the falling word.           *)
LandedWordsStay ==
  pc \in {"in_on", "in_off"} =>
    LET landed == DISPLAYS[time_inc] \ todo IN
      /\ PixelsOf(landed) \subseteq shown
      /\ shown \subseteq PixelsOf(landed) \cup Column(Word)

(* The sweep hides no word: the old ones stay lit while the panel fills up, *)
(* the new ones while it empties, and in between all of it is lit.          *)
SweepHidesNoWord ==
  /\ pc = "sweep_on" /\ theta > 0 => TimeDisplay(last_time_inc) \subseteq shown
  /\ pc = "sweep_off" => TimeDisplay(time_inc) \subseteq shown
  /\ pc = "sweep_off" /\ theta = 0 => shown = Panel

(* The last frame of a transition is the new time: the frame that clock()   *)
(* draws after it changes no pixel.                                         *)
EndsOnTheTime == pc = "draw" => shown = TimeDisplay(time_inc)

(* The frames that are left of a transition, at most: each word goes down   *)
(* the panel and one row below it, and its trail after it.                  *)
WordFrames(s) == Cardinality(s) * (2 * (MatrixHeight + 1))
OutFrames ==
  2 + WordFrames(DISPLAYS[time_inc]) + WordFrames(todo) - (row - WORDS[Word].row)
InFrames == 1 + WordFrames(todo) - row
FramesLeft ==
  CASE pc = "out_on"    -> OutFrames
    [] pc = "out_off"   -> OutFrames - (MatrixHeight + 1)
    [] pc = "in"        -> 2 + WordFrames(DISPLAYS[time_inc])
    [] pc = "in_on"     -> InFrames
    [] pc = "in_off"    -> InFrames - (MatrixHeight + 1)
    [] pc = "sweep_on"  -> 2 * (LastTheta + 1) + 1 - theta
    [] pc = "sweep_off" -> LastTheta + 2 - theta
    [] pc = "draw"      -> 1
    [] pc = "clock"     -> 0

(* A transition ends: each of its frames leaves fewer, whatever the loops   *)
(* over words and rows do.  clock() waits for it, and the time with it.     *)
FramesRunOut == [][pc # "clock" => FramesLeft' \in 0..(FramesLeft - 1)]_vars
=============================================================================
