------------------------------- MODULE RawMidi -------------------------------
(***************************************************************************)
(* The raw MIDI card (emuhost.cpp, alsamidi.h, Settings.cpp): the emulator *)
(* links its two ports to those of the card it is told to take over, once  *)
(* at its start and, on its own thread, again every two seconds until that *)
(* succeeds.  Meanwhile cards come and go, a card publishes its ports one  *)
(* by one, and the settings window writes the name of the card.  A link is *)
(* two subscriptions: our port hears the card's, and the card's hears ours.*)
(***************************************************************************)
EXTENDS Integers

CONSTANTS Cards,  \* the names of cards
          None    \* the empty name: take over none

RawMidiAssumption == None \notin Cards

(* The emulator's ports, in the order of the card's. *)
Ports == {"MIDI", "PC Port"}
Place(p) == IF p = "MIDI" THEN 1 ELSE 2

(* What comes of link: nothing; the second subscription is refused, and    *)
(* the first stays; or both are made.                                      *)
TwoWay == {"in", "out"}
Outcomes == {{}, {"in"}, TwoWay}

VARIABLES
  published,  \* the ports each card has in the sequencer, 0 if not loaded
  wanted,     \* m_options.rawMidiCard
  writing,    \* the settings window is assigning it
  pc,         \* bindRawMidi: "name", "find", "first", "second" or, between
              \*   calls, "rounds"
  name,       \* the name it has read
  found,      \* the ports it has found
  done,       \* those linked both ways
  links,      \* the subscriptions: our port, the card, "in" to us or "out"
  bound,      \* m_rawMidiBound
  status,     \* m_stats.rawMidi
  started,    \* start has returned: there is a window
  named,      \* history: the name at the start
  gone        \* history: a card that was linked has gone since the start

progress == <<name, found, done, links, bound, status, started>>
attempt == <<pc, progress>>
vars == <<published, wanted, writing, attempt, named, gone>>

Names == Cards \cup {None}

TypeOK ==
  /\ published \in [Cards -> 0 .. 2]
  /\ wanted \in Names /\ writing \in BOOLEAN
  /\ pc \in {"name", "find", "first", "second", "rounds"}
  /\ name \in Names /\ found \in 0 .. 2 /\ done \subseteq Ports
  /\ links \subseteq Ports \X Cards \X TwoWay /\ status \subseteq Ports \X Cards
  /\ bound \in BOOLEAN /\ started \in BOOLEAN /\ named \in Names /\ gone \in BOOLEAN

(* The call of start *)
Begun ==
  /\ pc = "name" /\ name = None /\ found = 0 /\ done = {} /\ links = {}
  /\ bound = FALSE /\ status = {} /\ started = FALSE /\ gone = FALSE

Init ==
  /\ published = [c \in Cards |-> 0]
  /\ wanted \in Names /\ writing = FALSE /\ named = wanted
  /\ Begun

-----------------------------------------------------------------------------
(* The kernel *)

Publish(c) ==
  /\ published[c] < 2
  /\ published' = [published EXCEPT ![c] = @ + 1]
  /\ UNCHANGED <<wanted, writing, attempt, named, gone>>

(* Its subscriptions go with it; m_rawMidiBound stays. *)
Unload(c) ==
  /\ published' = [published EXCEPT ![c] = 0]
  /\ links' = {l \in links : l[2] # c}
  /\ gone' = (gone \/ \E l \in links : l[2] = c /\ l[3] = "out")
  /\ UNCHANGED <<wanted, writing, pc, name, found, done, bound, status, started, named>>

-----------------------------------------------------------------------------
(* The settings window: apply assigns the name, changed or not. *)
BeginApply(n) ==
  /\ started /\ ~writing
  /\ writing' = TRUE /\ wanted' = n
  /\ UNCHANGED <<published, attempt, named, gone>>

EndApply ==
  /\ writing /\ writing' = FALSE
  /\ UNCHANGED <<published, wanted, attempt, named, gone>>

-----------------------------------------------------------------------------
(* bindRawMidi *)

outside == <<published, wanted, writing, named, gone>>

(* The timer of run *)
Retry ==
  /\ pc = "rounds" /\ ~bound /\ pc' = "name"
  /\ UNCHANGED <<outside, progress>>

(* rawMidiCard compares the name; read while it is assigned, it may be any.*)
ReadName ==
  /\ pc = "name" /\ pc' = "find"
  /\ \E n \in Names : (writing \/ n = wanted) /\ name' = n
  /\ UNCHANGED <<outside, found, done, links, bound, status, started>>

(* findCardPorts: none for no card, or one that is not loaded *)
CardPorts == IF name = None THEN 0 ELSE published[name]

FindCardPorts ==
  /\ pc = "find" /\ CardPorts > 0
  /\ pc' = "first" /\ found' = CardPorts
  /\ UNCHANGED <<outside, name, done, links, bound, status, started>>

(* A slip: a card that is not there is not looked for again. *)
FindNothingLast ==
  /\ pc = "find" /\ CardPorts = 0
  /\ pc' = "rounds" /\ bound' = TRUE /\ started' = TRUE
  /\ UNCHANGED <<outside, name, found, done, links, status>>

FindNothing ==
  /\ pc = "find" /\ CardPorts = 0
  /\ pc' = "rounds" /\ started' = TRUE
  /\ UNCHANGED <<outside, name, found, done, links, bound, status>>

(* link: a port that was found may be gone, or refuse; a subscription that *)
(* is there already counts as made.                                        *)
Subscribe(p, made) ==
  /\ {d \in TwoWay : <<p, name, d>> \in links} \subseteq made
  /\ made # {} => Place(p) <= CardPorts
  /\ links' = links \cup ({p} \X {name} \X made)

LinkMidi(made) ==
  /\ pc = "first" /\ pc' = "second"
  /\ Subscribe("MIDI", made)
  /\ done' = IF made = TwoWay THEN {"MIDI"} ELSE {}
  /\ UNCHANGED <<outside, name, found, bound, status, started>>

(* The second port, if there is one; one of the two is enough. *)
LinkPcPort(made) ==
  /\ pc = "second" /\ pc' = "rounds"
  /\ IF found > 1 THEN Subscribe("PC Port", made) ELSE made = {} /\ UNCHANGED links
  /\ LET all == done \cup (IF made = TwoWay THEN {"PC Port"} ELSE {})
     IN  /\ bound' = (all # {})
         /\ status' = IF all = {} THEN status ELSE all \X {name}
  /\ done' = {} /\ started' = TRUE
  /\ UNCHANGED <<outside, name, found>>

Bind ==
  \/ ReadName \/ FindCardPorts \/ FindNothing
  \/ \E made \in Outcomes : LinkMidi(made) \/ LinkPcPort(made)

(* The program is ended and started again, with the name last set. *)
Restart ==
  /\ pc = "rounds" /\ ~writing
  /\ pc' = "name" /\ name' = None /\ found' = 0 /\ done' = {} /\ links' = {}
  /\ bound' = FALSE /\ status' = {} /\ started' = FALSE /\ gone' = FALSE
  /\ named' = wanted
  /\ UNCHANGED <<published, wanted, writing>>

Next ==
  \/ \E c \in Cards : Publish(c) \/ Unload(c)
  \/ \E n \in Names : BeginApply(n)
  \/ EndApply \/ Retry \/ Bind \/ Restart

Spec == Init /\ [][Next]_vars

(* The thread goes on, an assignment ends, and a card that is there does   *)
(* not refuse for ever to link its first port both ways.                   *)
Fairness ==
  /\ WF_vars(Retry) /\ WF_vars(Bind) /\ WF_vars(EndApply)
  /\ SF_vars(LinkMidi(TwoWay))

FairSpec == Spec /\ Fairness

-----------------------------------------------------------------------------
(* A card's port hears ours. *)
Taken == \E l \in links : l[3] = "out"

(* A card that is loaded in the end, before the emulator or after it, is   *)
(* taken, unless another was before ("keep trying to take it over"): no    *)
(* refusal, no name read in the middle of being written and no unloading   *)
(* between two steps of an attempt leaves the emulator bound to nothing.   *)
(* It holds until a card that was taken goes: m_rawMidiBound is never      *)
(* cleared (emuhost.cpp:530), and that one, or another, is not taken then. *)
CardTaken ==
  <>[](started /\ ~writing /\ wanted # None /\ published[wanted] > 0 /\ ~gone)
    => <>[]Taken

(* Only one card ever hears the emulator, however often the name is        *)
(* changed.  The emulator may go on hearing another, of which an attempt   *)
(* made the first subscription only.                                       *)
OneCard == \A k, l \in links : k[3] = "out" /\ l[3] = "out" => k[2] = l[2]

(* Settings.cpp:156, "The level applies now; the rest, on the next start": *)
(* the card taken over is the one named at the start.                      *)
NextStartOnly == \A l \in status : l[2] = named
=============================================================================
