---------------------------- MODULE MCRuleEngine ----------------------------
(* RuleEngine on families of small plans.                                  *)
EXTENDS RuleEngine

Segments == <<"E-STOP", "UPPER-LIMIT", "a", "b", "c">>

\* ':' sorts before every letter, so texts compare segment by segment.
SegmentLess(s, t) ==
  \E i, j \in DOMAIN Segments : i < j /\ Segments[i] = s /\ Segments[j] = t

MCTextLess(s, t) ==
  \E n \in 0 .. Len(s) :
    /\ n < Len(t)
    /\ \A k \in 1 .. n : s[k] = t[k]
    /\ n = Len(s) \/ SegmentLess(s[n + 1], t[n + 1])

MCInterlocks == {<<"E-STOP">>, <<"UPPER-LIMIT">>}

\* Two devices for both zones, and one for one of them.
MCCapabilities ==
  [d \in {"d1", "d2", "d3"} |->
     [maxLoad |-> 5, interlocks |-> MCInterlocks,
      zones |-> IF d = "d3" THEN {"main"} ELSE {"main", "fly"}]]

Quiet ==
  [id |-> <<"a">>, sequence |-> 1, device |-> "d1", zone |-> "main",
   starts |-> 0, duration |-> 1, load |-> 0, clearance |-> "notRequired",
   interlocks |-> MCInterlocks]

\* Three moves in any arrangement of times, and of machines and zones up to
\* their names; the plan's order is not the order of the ids.
Moved(id, sequence, devices, zones) ==
  {[Quiet EXCEPT !.id = <<id>>, !.sequence = sequence, !.device = d,
                 !.zone = z, !.starts = s, !.duration = n] :
     d \in devices, z \in zones, s \in 0 .. 2, n \in 1 .. 2}

Crossings ==
  {[window |-> 4, steps |-> <<a, b, c>>] :
     a \in Moved("a", 2, {"d1"}, {"main"}),
     b \in Moved("b", 3, {"d1", "d2"}, {"main", "fly"}),
     c \in Moved("c", 1, {"d1", "d2"}, {"main", "fly"})}

\* Two moves that cross and break the rules about single steps.
Careless(id, sequence, device) ==
  {[Quiet EXCEPT !.id = <<id>>, !.sequence = sequence, !.device = device,
                 !.load = n, !.clearance = c, !.interlocks = i] :
     n \in {0, 9}, c \in {"notRequired", "required", "confirmed"},
     i \in SUBSET MCInterlocks}

Breaches ==
  {p \in {[window |-> 4, steps |-> <<a, b>>] :
            a \in Careless("a", 2, "d1"), b \in Careless("b", 1, "d2")} :
     Cardinality(AllStepRisks(p)) <= 3}

\* A move at and beyond the limits of validation and of the capabilities,
\* before one that may share its id or its sequence number.
Edge ==
  {[Quiet EXCEPT !.sequence = q, !.device = d, !.zone = "fly",
                 !.starts = s, !.duration = n] :
     q \in 0 .. 1, d \in {"d2", "d3", "d4"}, s \in {-1, 0, 2},
     n \in {0, 1, 3, 4}}

Edges ==
  {[window |-> 4, steps |-> <<e, b>>] :
     e \in Edge,
     b \in {[Quiet EXCEPT !.id = i, !.sequence = q] :
              i \in {<<"a">>, <<"b">>}, q \in 1 .. 2}}
  \cup {[window |-> 4, steps |-> <<>>],
        [window |-> 4, steps |-> <<Quiet, Quiet, Quiet, Quiet>>]}

MCIds == {<<"a">>, <<"b">>, <<"c">>}

MCPlans == Crossings \cup Breaches \cup Edges

\* A step that starts so late that its end wraps around.
LatePlans ==
  {[window |-> 4, steps |-> <<[Quiet EXCEPT !.starts = s, !.duration = 3]>>] :
     s \in 0 .. 7}

\* Ids with a colon: "a", "a:b", "b:c" and "c", the first two on one machine
\* and the others on another.
ColonIds == {<<"a">>, <<"a", "b">>, <<"b", "c">>, <<"c">>}

Standing(id, sequence, device) ==
  [Quiet EXCEPT !.id = id, !.sequence = sequence, !.device = device]

ColonPlans ==
  {[window |-> 4,
    steps |-> <<Standing(<<"a">>, 1, "d1"), Standing(<<"a", "b">>, 2, "d1"),
                Standing(<<"b", "c">>, 3, "d2"), Standing(<<"c">>, 4, "d2")>>]}

============================================================================
