------------------------- MODULE MC_RequestTravels -------------------------
(***************************************************************************)
(* A small instance of RequestTravels: documents with every field in one   *)
(* of its spellings, documents with one thing wrong each, and durations of *)
(* about six frames, so that songs are empty or of one to four windows     *)
(* (windows of two frames, one every frame).                               *)
(***************************************************************************)
EXTENDS RequestTravels

CONSTANTS verse, mood, blank, book, q4

SmallTexts == {verse, mood, blank, book}

\* No bytes, a few, and as many as a document of nothing else may have.
SmallLength ==
  [t \in SmallTexts |-> IF t = blank THEN 0 ELSE IF t = book THEN 18 ELSE 1]

Empty == [key \in {} |-> Other]
Doc(members) == [repeated |-> FALSE, root |-> members]
Given(key, v) == [k \in {key} |-> v]
Words == [lyrics |-> Text(verse), caption |-> Text(mood)]
Duration(n) == Given("duration", Number(n, FALSE))
Seconds(hundredths) == Duration(30000 * hundredths)
Brief == Words @@ Seconds(10)

\* A scale, or a duration, of which six decimals leave nothing.
Trifle == 1

\* Every way to give each field, and what overrides what.
GoodDocuments ==
  {Doc(Words @@ Seconds(h)) : h \in {3, 4, 8, 12, 24}}
  \cup {Doc(Words @@ Duration(n)) : n \in {Trifle, 240001, 599999}}
  \cup {Doc(Brief @@ m) : m \in
    {Given("seed", Number(7, TRUE)),
     Given("top_k", Number(9, TRUE)),
     Given("cfg_scale", Number(0, TRUE)),
     Given("guidance_scale", Number(20 * Tenth, TRUE)),
     Given("cfg_scale", Number(Trifle, FALSE)),
     Given("guidance_scale", Number(17 * Tenth - 1, FALSE)),
     Given("inference_steps", Number(2, TRUE)),
     Given("sampling", Object(Empty)),
     Given("flow", Object(Given("seed", Number(0, TRUE)))),
     Given("flow", Object(Given("seed", Number(5, TRUE)))),
     Given("output_sample_rate", Number(32000, TRUE))}}
  \cup {Doc([lyrics |-> Text(verse), description |-> Text(mood),
             duration_seconds |-> Number(359998, FALSE),
             top_k |-> Number(9, TRUE), inference_steps |-> Number(3, TRUE),
             guidance_scale |-> Number(20 * Tenth, FALSE), seed |-> Number(7, TRUE),
             sampling |-> Object(Given("top_k", Number(4, TRUE))),
             flow |-> Object([euler_steps |-> Number(1, TRUE),
                              cfg_scale |-> Number(0, FALSE)])]),
        Doc([lyrics |-> Text(book), caption |-> Text(mood),
             duration |-> Number(240000, FALSE)])}

\* One thing wrong with each.
BadDocuments ==
  {Doc(Brief @@ m) : m \in
    {Given("typo", Number(1, TRUE)),
     Given("description", Text(mood)),
     Given("duration_seconds", Number(10 * Tenth, FALSE)),
     Given("seed", Number(7, FALSE)),
     Given("seed", Number(100000, TRUE)),
     Given("cfg_scale", Number(1000 * Tenth + 1, FALSE)),
     Given("cfg_scale", Text(mood)),
     Given("top_k", Number(0, TRUE)),
     Given("output_sample_rate", Number(48000, TRUE)),
     Given("sampling", Number(1, TRUE)),
     Given("sampling", Object(Given("seed", Number(1, TRUE)))),
     Given("flow", Object(Given("euler_steps", Number(0, TRUE)))),
     Given("flow", Object(Given("euler_steps", Number(1, FALSE)))),
     Given("flow", Object(Given("cfg_scale", Other)))}}
  \cup {Doc(Words @@ Duration(n)) : n \in {0, 3000 * Tenth + 1}}
  \cup {Doc([caption |-> Text(mood)]), Doc([lyrics |-> Text(verse)]),
        Doc([lyrics |-> Text(blank), caption |-> Text(mood)]),
        Doc([lyrics |-> Other, caption |-> Text(mood)]),
        Doc([lyrics |-> Text(book), caption |-> Text(book)]),
        [repeated |-> TRUE, root |-> Brief]}

SmallDocuments == GoodDocuments \cup BadDocuments

(***************************************************************************)
(* The requests the good documents ask for, those the session makes of     *)
(* them, and the same with the flow seed given.                            *)
(***************************************************************************)
Asked == {Read(d) : d \in {g \in GoodDocuments : Accepts(g)}}
SmallRequests ==
  Asked \cup {NativeRequest(r) : r \in Asked}
        \cup {[r EXCEPT !.flow_seed_present = TRUE] : r \in Asked}

SmallTarget == [r \in SmallRequests |-> StagedFrames(r.duration)]
SmallEos == [c \in Components |-> [r \in SmallRequests |-> 6]]
SmallSteps ==
  [r \in SmallRequests |-> IF r.euler_steps = 30 THEN 1 ELSE r.euler_steps]
=============================================================================
