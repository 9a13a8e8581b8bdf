---------------------------- MODULE MCLivePermit ----------------------------
(* Finite instances of LivePermit: operations and environments of a command. *)
EXTENDS LivePermit

Query(profile, kind, period, days) ==
  [profile |-> profile, kind |-> kind, period |-> period, days |-> days]

\* A day, a week, the week of another profile, another kind.
MixedQueries ==
  {Query("a", "metadata", "day", 1), Query("a", "metadata", "week", 7),
   Query("b", "metadata", "week", 7), Query("a", "cfdi", "day", 1)}
FewQueries == {Query("a", "metadata", "day", 1), Query("a", "metadata", "week", 7)}

\* Every gate open, and each one closed on its own.
Open == [manual |-> TRUE, confirmed |-> TRUE, ready |-> TRUE, ci |-> FALSE,
         allowSat |-> TRUE, allowCredentials |-> TRUE]
ManyInputs ==
  {Open, [Open EXCEPT !.manual = FALSE], [Open EXCEPT !.confirmed = FALSE],
   [Open EXCEPT !.ready = FALSE], [Open EXCEPT !.ci = TRUE],
   [Open EXCEPT !.allowSat = FALSE], [Open EXCEPT !.allowCredentials = FALSE]}

\* The environment of an operator who relies on permits alone.
PermitOnly == [Open EXCEPT !.confirmed = FALSE, !.allowSat = FALSE, !.allowCredentials = FALSE]
FewInputs == {PermitOnly, [Open EXCEPT !.ready = FALSE]}
=============================================================================
