------------------------------ MODULE TheMatrix ------------------------------
(***************************************************************************)
(* TheMatrix(), the transition that lets green drops fall until the new     *)
(* words are complete.  Rows are uint8_t and a drop waits above the panel   *)
(* at row -k, which is 256 - k; pause[] starts with what is on the stack.   *)
(***************************************************************************)
EXTENDS Integers, Sequences, FiniteSets, SequencesExt

CONSTANTS
  MatrixWidth, MatrixHeight,
  ZeroPixel,       \* the pixel at index 0 of the strip
  LitSets,         \* the pixels that may be lit by the old words
  NeedSets,        \* the pixels of the new words
  Spare,           \* n_need starts as 8: the drops more than there are pixels
  PauseMin, PauseMax,  \* random(6, 9)
  Garbage          \* what pause[] may hold before it is set

Pixels == (0..(MatrixWidth - 1)) \X (0..(MatrixHeight - 1))
NUM_LEDS == MatrixWidth * MatrixHeight

ASSUME PanelAssumption ==
  /\ MatrixWidth \in 1..255 /\ MatrixHeight \in 1..128
  /\ ZeroPixel \in Pixels
  /\ LitSets \subseteq SUBSET Pixels /\ NeedSets \subseteq SUBSET Pixels
  /\ Spare \in Nat
  /\ \A need \in NeedSets : Cardinality(need) + Spare <= NUM_LEDS
  /\ PauseMin \in 1..255 /\ PauseMax \in PauseMin..255
  /\ Garbage \subseteq 0..255

VARIABLES
  pc,      \* "fall", "tail" or "done"
  i,       \* the drop that moves next
  drops,   \* rows[] and cols[]
  pause, n_drop,
  wipe, have,  \* the new words, and what there is of them
  late,    \* millis() > end
  frame,   \* of the loop after the last pixel
  lucky    \* from now on the draws are lucky, see CanEnd

fallen == <<i, drops, pause, n_drop, have>>
vars == <<pc, fallen, wipe, late, frame, lucky>>

n_need == Spare + Cardinality(wipe)

(* XY(): what is not on the panel has index 0. *)
OnPanel(d) == d.row < MatrixHeight /\ d.col < MatrixWidth
XY(d) == IF OnPanel(d) THEN <<d.col, d.row>> ELSE ZeroPixel

Byte(n) == n % 256

(* -random(0, MatrixHeight) in a uint8_t, in a random column.               *)
Placements ==
  [col : 0..(MatrixWidth - 1), row : {Byte(256 - k) : k \in 0..(MatrixHeight - 1)}]

(* A place in rows[] and cols[] that was never set.                         *)
Unset == [col |-> 255, row |-> 255]

(* The drops start on the lit pixels, and above the panel if those are too  *)
(* few.                                                                     *)
Init ==
  /\ pc = "fall" /\ i = 1 /\ frame = 0 /\ late = FALSE /\ lucky = FALSE
  /\ wipe \in NeedSets
  /\ have = {}
  /\ \E lit \in LitSets :
       LET old == SetToSeq({[col |-> p[1], row |-> p[2]] : p \in lit})
           missing == IF Len(old) < n_need THEN n_need - Len(old) ELSE 0
       IN  /\ n_drop = Len(old) + missing
           /\ \E new \in [1..missing -> Placements] :
                drops = [k \in 1..(NUM_LEDS + 1) |->
                           IF k <= Len(old) THEN old[k]
                           ELSE IF k <= n_drop THEN new[k - Len(old)] ELSE Unset]
  /\ pause \in [1..NUM_LEDS -> Garbage]

-----------------------------------------------------------------------------
(* What random() may give; 0 stands for no new pause.                       *)

Missing == wipe \ have
CatchDraws == IF lucky THEN {TRUE} ELSE BOOLEAN
PauseDraws == IF lucky THEN {0} ELSE {0} \cup (PauseMin..PauseMax)

PlaceDraws ==
  IF lucky /\ Missing # {}
    THEN {[col |-> p[1], row |-> 0] : p \in Missing} \cap Placements
    ELSE Placements

(* A drop that lies on a missing pixel fills it, one time in three.  Mutant: *)
(* on any pixel.                                                            *)
Catch_Anywhere(d) ==
  IF late
    THEN \E caught \in CatchDraws : have' = IF caught THEN have \cup {XY(d)} ELSE have
    ELSE UNCHANGED have

Catch(d) ==
  IF late /\ XY(d) \in wipe
    THEN \E caught \in CatchDraws : have' = IF caught THEN have \cup {XY(d)} ELSE have
    ELSE UNCHANGED have

(* "slide drops down by one", over the one that left the panel; the last of *)
(* them gets what is in the place behind it.                                *)
SlideDown ==
  [k \in DOMAIN drops |-> IF k \in i..n_drop THEN drops[k + 1] ELSE drops[k]]

(* A drop below the panel goes if there are drops to spare.  Mutant: it     *)
(* goes in any case.                                                        *)
Land_AlwaysGone(d) ==
  IF d.row >= MatrixHeight
    THEN drops' = SlideDown /\ n_drop' = n_drop - 1
    ELSE drops' = [drops EXCEPT ![i] = d] /\ UNCHANGED n_drop

Land(d) ==
  IF d.row < MatrixHeight
    THEN drops' = [drops EXCEPT ![i] = d] /\ UNCHANGED n_drop
    ELSE IF n_drop > n_need
      THEN drops' = SlideDown /\ n_drop' = n_drop - 1
      ELSE /\ \E place \in PlaceDraws : drops' = [drops EXCEPT ![i] = place]
           /\ UNCHANGED n_drop

(* One turn of the loop over the drops. *)
MoveDrop ==
  /\ pc = "fall" /\ i <= n_drop
  /\ Catch(drops[i])
  /\ \E draw \in PauseDraws :
       LET p == IF draw = 0 THEN pause[i] ELSE draw
       IN  /\ Land(IF p = 0 THEN [drops[i] EXCEPT !.row = Byte(@ + 1)] ELSE drops[i])
           /\ pause' = [pause EXCEPT ![i] = IF p = 0 THEN 0 ELSE p - 1]
  /\ i' = i + 1
  /\ UNCHANGED <<pc, wipe, late, frame, lucky>>

(* FastLED.show(), delay(75) and the test of the while. *)
NextFrame ==
  /\ pc = "fall" /\ i > n_drop
  /\ IF have = wipe THEN pc' = "tail" /\ UNCHANGED i
                    ELSE i' = 1 /\ UNCHANGED pc
  /\ UNCHANGED <<drops, pause, n_drop, have, wipe, late, frame, lucky>>

FiveSeconds ==
  /\ ~late
  /\ late' = TRUE
  /\ UNCHANGED <<pc, fallen, wipe, frame, lucky>>

-----------------------------------------------------------------------------
(* Mutant: the drops fall for as many frames as the panel has rows.         *)
TailFrames_Panel == MatrixHeight
TailFrames == MatrixHeight * 10

(* The rest of the drops leave the panel. *)
TailFrame ==
  /\ pc = "tail"
  /\ frame < TailFrames
  /\ frame' = frame + 1
  /\ drops' = [k \in DOMAIN drops |->
                 IF k <= n_drop THEN [drops[k] EXCEPT !.row = Byte(@ + 1)] ELSE drops[k]]
  /\ UNCHANGED <<pc, i, pause, n_drop, have, wipe, late, lucky>>

Finish ==
  /\ pc = "tail" /\ frame = TailFrames
  /\ pc' = "done"
  /\ UNCHANGED <<fallen, wipe, late, frame, lucky>>

Done == pc = "done" /\ UNCHANGED vars

GetLucky ==
  /\ ~lucky
  /\ lucky' = TRUE
  /\ UNCHANGED <<pc, fallen, wipe, late, frame>>

Loop == MoveDrop \/ NextFrame \/ TailFrame \/ Finish

Next == Loop \/ FiveSeconds \/ GetLucky \/ Done

Spec == Init /\ [][Next]_vars

(* The thread runs on and time passes; nothing is assumed of the draws.     *)
FairSpec == Spec /\ WF_vars(Loop) /\ WF_vars(FiveSeconds)

-----------------------------------------------------------------------------
(* Properties *)

Falling == {drops[k] : k \in 1..n_drop}

TypeOK ==
  /\ pc \in {"fall", "tail", "done"}
  /\ i \in 1..(NUM_LEDS + 1) /\ n_drop \in 0..NUM_LEDS
  /\ drops \in [1..(NUM_LEDS + 1) -> [col : 0..255, row : 0..255]]
  /\ pause \in [1..NUM_LEDS -> 0..255]
  /\ have \subseteq wipe
  /\ frame \in 0..TailFrames

(* Sliding the drops down reads one place behind the last drop.  What it    *)
(* finds there never becomes a drop, and as many drops stay as n_need says. *)
DropsAreSet == n_drop >= n_need /\ Unset \notin Falling

(* When the transition ends, the panel shows the new words and no drop,     *)
(* also none of those that waited above the panel when the last pixel was   *)
(* filled.                                                                  *)
EndsOnTheTime == pc = "done" => have = wipe /\ \A d \in Falling : ~OnPanel(d)

=============================================================================
