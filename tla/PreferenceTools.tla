-------------------------- MODULE PreferenceTools --------------------------
(***************************************************************************)
(* get_preferences and set_preferences (features/preferences).  A          *)
(* preference is a name, with a setter that takes one flag or, for those   *)
(* of the workspace, two.                                                  *)
(***************************************************************************)
EXTENDS ToolPlans, SequencesExt

CONSTANTS
  PREFERENCES,         \* the names pktctl knows, in their order
  WorkspaceFlags,      \* those it takes for preferences of the workspace
  TwoArgumentSetters   \* those whose setter takes two flags

Known == ToSet(PREFERENCES)

\* As the test every_preference_maps_to_real_options_methods has it.
ASSUME SettersAssumption == \A name \in Known : name \in WorkspaceFlags <=> name \in TwoArgumentSetters

\* Every getter is called; one look at all of them.
get_preferences == <<Ask("options", "")>>

\* One setter after the other, unknown names being found on the way.
set_preferences_unchecked(r, seen) ==
  Then([k \in DOMAIN r.values |->
          IF r.values[k].name \in Known
          THEN Tell("set", r.values[k].name, [value |-> r.values[k].value,
                                              workspace |-> r.values[k].name \in WorkspaceFlags])
          ELSE Refuse], seen,
       LAMBDA got, more : get_preferences)

\* All names are looked up before the first is set; r.values is in the order of the names.
set_preferences(r, seen) ==
  IF \E k \in DOMAIN r.values : r.values[k].name \notin Known THEN <<Refuse>>
  ELSE [k \in DOMAIN r.values |->
          Tell("set", r.values[k].name, [value |-> r.values[k].value,
                                         workspace |-> r.values[k].name \in WorkspaceFlags])]
       \o get_preferences

PreferencePlan(r, seen) ==
  CASE r.tool = "get_preferences" -> get_preferences
    [] r.tool = "set_preferences" -> set_preferences(r, seen)

\* A setter that is given the wrong number of flags fails.
PreferenceAnswer(p, c) ==
  CASE c.op = "options" -> Gives(p, p.values)
    [] c.op = "set" -> IF c.val.workspace = (c.at \in TwoArgumentSetters)
                       THEN Obeys([p EXCEPT !.values[c.at] = c.val.value]) ELSE Missing(p)
    [] OTHER -> Unknown(p)

----------------------------------------------------------------------------
\* What the properties ask about.

PreferenceInit ==
  {[part |-> "preferences", values |-> [name \in Known |-> name = "show_port_labels"]]}

PreferenceTopics(r) ==
  IF r.tool = "get_preferences" THEN {} ELSE {r.values[k].name : k \in DOMAIN r.values}

\* What was asked for, and no other preference has changed by it.
PreferenceWanted(r, now) ==
  r.tool = "set_preferences" =>
    \A k \in DOMAIN r.values : now.values[r.values[k].name] = r.values[k].value

PreferenceSound(p) == DOMAIN p.values = Known
=============================================================================
