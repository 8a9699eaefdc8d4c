--------------------------- MODULE MCProgramFeed ---------------------------
(* An instance of ProgramFeed for TLC: a day of four slots of six units, which *)
(* begins at six; half an hour, that is, is six units.                         *)
EXTENDS ProgramFeed, TLC

Lengths ==
  "e1" :> 4 @@ "e2" :> 5 @@ "e3" :> 7 @@ "odd" :> 4 @@ "m1" :> 8 @@ "m2" :> 13
    @@ "short" :> 3 @@ "void" :> 0 @@ "s1" :> 1 @@ "s2" :> 2 @@ "filler" :> 3
Chapters ==
  [a \in DOMAIN Lengths |->
     CASE a = "e2" -> {0, 2, 3} [] a = "odd" -> {5} [] OTHER -> {}]
AllPools ==
  "show" :> <<"e1", "e2", "e3">> @@ "other" :> <<"odd", "e1">>
    @@ "films" :> <<"m1", "m2", "short">> @@ "film" :> <<"m1", "short">>
    @@ "none" :> <<"short">> @@ "bad" :> <<"void">> @@ "empty" :> <<>>

Def(kind, pools, mode, end, bleed) ==
  [kind |-> kind, pools |-> pools, entries |-> <<>>, mode |-> mode, end |-> end,
   bleed |-> bleed, admits |-> {"m1", "m2", "short", "void"}]
Slots(entries) ==
  [kind |-> "slots", pools |-> <<>>, entries |-> entries, mode |-> "none",
   end |-> 0, bleed |-> FALSE, admits |-> {}]
Entry(pool, mode) == [pool |-> pool, mode |-> mode]
AllDays == 0..2

\* Episodes round the clock, with a marathon across them on the second day.
RoundTheClock ==
  << [days |-> AllDays,
      defs |-> 6 :> Def("block", <<"show">>, "sequential", 6, FALSE)],
     [days |-> {1},
      defs |-> 12 :> Def("marathon", <<"films">>, "random", 0, TRUE)] >>
\* A slot list, a movie, and episodes after midnight from the same pool.
Evening ==
  << [days |-> AllDays,
      defs |-> 6 :> Slots(<<Entry("show", "sequential"), Entry("show", "sequential"),
                            Entry("e1", "fixed")>>)
            @@ 18 :> Def("movie", <<"film">>, "random", 0, FALSE)
            @@ 0 :> Def("block", <<"show", "other">>, "shuffle", 6, FALSE)] >>
\* A marathon that may not bleed, a definition off the grid on the second day,
\* and a pool without a film that is long enough on the third.
Patchy ==
  << [days |-> AllDays,
      defs |-> 6 :> Def("marathon", <<"film">>, "random", 0, FALSE)],
     [days |-> {1}, defs |-> 7 :> Def("block", <<"other">>, "random", 12, FALSE)],
     [days |-> {2}, defs |-> 12 :> Def("movie", <<"none">>, "random", 0, FALSE)],
     [days |-> {0}, defs |-> 0 :> Def("marathon", <<"none">>, "random", 6, FALSE)
                          @@ 18 :> Def("movie", <<"bad">>, "random", 0, FALSE)] >>
\* A slot list alone, with a random pick; on two days a pool that matches no
\* asset, in a slot list and among the pools of a block.
Sparse ==
  << [days |-> AllDays,
      defs |-> 12 :> Slots(<<Entry("other", "random")>>)],
     [days |-> {1}, defs |-> 18 :> Slots(<<Entry("empty", "sequential")>>)],
     [days |-> {2},
      defs |-> 18 :> Def("block", <<"other", "empty">>, "random", 0, FALSE)] >>

Channels == {RoundTheClock, Evening, Patchy, Sparse}
BothTypes == {"network", "movie"}
SomeSpots == {"s1", "s2"}
=============================================================================
