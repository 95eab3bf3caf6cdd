---------------------------- MODULE MCConfigPoll -----------------------------
(***************************************************************************)
(* Instances of ConfigPoll and EstateConfig for TLC: two agents that may   *)
(* both schedule a VM called web.                                          *)
(***************************************************************************)
EXTENDS ConfigPoll, TLC

CONSTANTS prod, dr, web, default, nightly, low, high, tooHigh

Nightly     == [interval |-> 2, verify |-> TRUE, every |-> FALSE, calendar |-> TRUE]
Plain       == [interval |-> 1, verify |-> FALSE, every |-> FALSE, calendar |-> FALSE]
Incomplete  == [interval |-> 1, verify |-> FALSE, every |-> TRUE, calendar |-> FALSE]
NightlyWeb  == [vm |-> web, enabled |-> TRUE, interval |-> 1, template |-> nightly,
                verify |-> FALSE, every |-> FALSE, calendar |-> TRUE]
HourlyWeb   == [vm |-> web, enabled |-> TRUE, interval |-> 1, template |-> NoTemplate,
                verify |-> FALSE, every |-> FALSE, calendar |-> FALSE]
DailyWeb    == [HourlyWeb EXCEPT !.interval = 2]

NoTemplates   == [limit |-> low, templates |-> [n \in {} |-> Nightly]]
WithNightly   == [limit |-> low, templates |-> (nightly :> Nightly)]
EmptySchedule == [a \in Agents |-> {}]
OneSchedule   == [a \in Agents |-> IF a = dr THEN {DailyWeb} ELSE {}]
TwoSchedules  == (prod :> {HourlyWeb}) @@ (dr :> {DailyWeb})

SaveDefaults  == {[kind |-> "settings", limit |-> l] : l \in {high, tooHigh}}
SaveTemplates == {[kind |-> "template", name |-> nightly, body |-> Plain],
                  [kind |-> "template", name |-> default, body |-> Incomplete],
                  [kind |-> "drop", name |-> nightly]}
SaveSchedule  == {[kind |-> "schedule", agent |-> prod, entry |-> NightlyWeb],
                  [kind |-> "schedule", agent |-> dr, entry |-> HourlyWeb],
                  [kind |-> "unschedule", agent |-> dr, vm |-> web]}
RevokeDr      == {[kind |-> "revoke", agent |-> dr]}

AllForms        == SaveDefaults \cup SaveTemplates \cup SaveSchedule \cup RevokeDr
SettingsForms   == SaveDefaults \cup SaveTemplates
TemplateForms   == SaveTemplates
NoForms         == {}

Symmetry == Permutations(Requests)
==============================================================================
