---------------------------- MODULE SongService ----------------------------
(***************************************************************************)
(* What the Cantor engine promises a host, without its machinery.          *)
(*                                                                         *)
(* A song is a function of a request and of a component mix.  The host     *)
(* holds at most one saved result of each kind, each a certain part of one *)
(* song: so many frames of codes, all conditions, so much of the flow, all *)
(* latents.  A call either adds one result in a single step, or none; a    *)
(* result of a later kind is only made of an earlier result of the same    *)
(* song; and the song itself is handed out whole or not at all.            *)
(***************************************************************************)
EXTENDS Naturals

CONSTANTS
  Mixes,           \* component mixes
  Songs,           \* requests
  Frames(_, _),    \* Frames(m, s): code frames of the whole song
  Windows(_, _),   \* Windows(m, s): its windows
  Steps(_),        \* Steps(s): Euler steps of each window
  Nothing

VARIABLES
  codes,        \* [mix, song, frames]
  conditions,   \* [mix, song]
  diffusing,    \* [mix, song, windows, steps]
  latents,      \* [mix, song]
  audio         \* [mix, song]

vars == <<codes, conditions, diffusing, latents, audio>>

Whole(m, s) == [mix |-> m, song |-> s]

Init ==
  /\ codes = Nothing
  /\ conditions = Nothing
  /\ diffusing = Nothing
  /\ latents = Nothing
  /\ audio = Nothing

-----------------------------------------------------------------------------
SaveCodes(m, s) ==
  /\ \E n \in 0 .. Frames(m, s) :
       codes' = [mix |-> m, song |-> s, frames |-> n]
  /\ UNCHANGED <<conditions, diffusing, latents, audio>>

\* A song needs at least two code frames: the first carries no sound.
SaveConditions(m, s) ==
  /\ Frames(m, s) > 1
  /\ conditions' = Whole(m, s)
  /\ UNCHANGED <<codes, diffusing, latents, audio>>

\* A flow is paused before an update of one of its windows.
PausedFlows(m, s) ==
  [mix : {m}, song : {s},
   windows : 0 .. Windows(m, s) - 1, steps : 0 .. Steps(s) - 1]

\* The flow of a song is entered from its conditions, or from a paused flow.
Diffusible(m, s) ==
  conditions = Whole(m, s) \/ diffusing \in PausedFlows(m, s)

SaveFlow(m, s) ==
  /\ Diffusible(m, s)
  /\ diffusing' \in PausedFlows(m, s)
  /\ UNCHANGED <<codes, conditions, latents, audio>>

SaveLatents(m, s) ==
  /\ Diffusible(m, s)
  /\ latents' = Whole(m, s)
  /\ UNCHANGED <<codes, conditions, diffusing, audio>>

\* Only latents in hand become audio, and they stay there.
Deliver(m, s) ==
  /\ latents = Whole(m, s)
  /\ audio' = Whole(m, s)
  /\ UNCHANGED <<codes, conditions, diffusing, latents>>

DropAudio ==
  /\ audio' = Nothing
  /\ UNCHANGED <<codes, conditions, diffusing, latents>>

Next ==
  \/ \E m \in Mixes, s \in Songs :
       \/ SaveCodes(m, s) \/ SaveConditions(m, s)
       \/ SaveFlow(m, s) \/ SaveLatents(m, s) \/ Deliver(m, s)
  \/ DropAudio

Spec == Init /\ [][Next]_vars
=============================================================================
