---------------------------- MODULE AlertManager ----------------------------
(***************************************************************************)
(* The alert manager (packages/monitor/src/alerts.ts): rules over metrics, *)
(* how long their conditions have held, their cooldowns, and the alerts.    *)
(*                                                                         *)
(* Time is a bounded counter; an evaluation says for a rule whether its      *)
(* condition holds.  Of what a rule says there is what its condition is      *)
(* about, the duration, the cooldown and whether it is enabled; a rule may   *)
(* be overwritten by any other under its id.  Alerts are numbered.           *)
(***************************************************************************)
EXTENDS Integers, FiniteSets

CONSTANTS
  Rules,       \* the rule ids
  Definitions, \* what a rule may say: condition, durationMs, cooldownMs, 0 for none, and enabled
  MaxAlerts,   \* bound on the alerts fired
  MaxTime      \* bound on the clock

VARIABLES
  now,           \* Date.now()
  rules,         \* the rules registered: what each one says
  firingStates,  \* firstTriggeredAt of each rule, -1 for none
  cooldowns,     \* when each rule fired last, 0 for never
  alerts,        \* the alerts fired: rule, time and status
  lastUnmet      \* when the condition of each rule was last found not to hold, or a new id was registered

alertVars == <<now, rules, firingStates, cooldowns, alerts, lastUnmet>>

Init ==
  /\ now = 1 /\ rules = <<>> /\ firingStates = [r \in Rules |-> -1] /\ cooldowns = [r \in Rules |-> 0]
  /\ alerts = {} /\ lastUnmet = [r \in Rules |-> 1]

Tick == now < MaxTime /\ now' = now + 1 /\ UNCHANGED <<rules, firingStates, cooldowns, alerts, lastUnmet>>

\* rules.set: a rule that is there is overwritten, and nothing else changes.
AddRule(r, definition) ==
  /\ rules' = [q \in DOMAIN rules \cup {r} |-> IF q = r THEN definition ELSE rules[q]]
  /\ lastUnmet' = [lastUnmet EXCEPT ![r] = IF r \in DOMAIN rules THEN @ ELSE now]
  /\ UNCHANGED <<now, firingStates, cooldowns, alerts>>

RemoveRule(r) ==
  /\ r \in DOMAIN rules /\ rules' = [q \in DOMAIN rules \ {r} |-> rules[q]]
  /\ firingStates' = [firingStates EXCEPT ![r] = -1] /\ cooldowns' = [cooldowns EXCEPT ![r] = 0]
  /\ UNCHANGED <<now, alerts, lastUnmet>>

-----------------------------------------------------------------------------
Active(r) == {a \in alerts : a.rule = r /\ a.status # "resolved"}

FireAlert(r) ==
  /\ Cardinality(alerts) < MaxAlerts
  /\ alerts' = alerts \cup {[no |-> Cardinality(alerts), rule |-> r, at |-> now, status |-> "firing"]}
  /\ cooldowns' = [cooldowns EXCEPT ![r] = now]

InCooldown(r) == rules[r].cooldownMs > 0 /\ now - cooldowns[r] < rules[r].cooldownMs

\* The condition has to hold for a while, and has not yet.
TooEarly(r) ==
  /\ rules[r].durationMs > 0
  /\ firingStates[r] = -1 \/ now - firingStates[r] < rules[r].durationMs

HandleConditionMet_Late(r) ==
  /\ firingStates' = [firingStates EXCEPT ![r] = IF @ = -1 THEN now ELSE @]
  /\ IF \/ InCooldown(r)
        \/ TooEarly(r)
        \/ \E a \in Active(r) : a.status = "firing"
     THEN UNCHANGED <<alerts, cooldowns>>
     ELSE FireAlert(r)

\* During a cooldown nothing is noted; then the duration, then the alerts still active.
HandleConditionMet(r) ==
  IF InCooldown(r) THEN UNCHANGED <<firingStates, alerts, cooldowns>>
  ELSE /\ firingStates' = [firingStates EXCEPT ![r] = IF @ = -1 THEN now ELSE @]
       /\ IF TooEarly(r) \/ Active(r) # {}
          THEN UNCHANGED <<alerts, cooldowns>>
          ELSE FireAlert(r)

ConditionUnmet(r) ==
  /\ firingStates' = [firingStates EXCEPT ![r] = -1] /\ lastUnmet' = [lastUnmet EXCEPT ![r] = now]
  /\ UNCHANGED <<alerts, cooldowns>>

Evaluate(r) ==
  /\ r \in DOMAIN rules /\ rules[r].enabled
  /\ \/ HandleConditionMet(r) /\ UNCHANGED lastUnmet
     \/ ConditionUnmet(r)
  /\ UNCHANGED <<now, rules>>

AcknowledgeAlert(a) ==
  /\ a.status = "firing" /\ alerts' = (alerts \ {a}) \cup {[a EXCEPT !.status = "acknowledged"]}
  /\ UNCHANGED <<now, rules, firingStates, cooldowns, lastUnmet>>

ResolveAlert(a) ==
  /\ a.status # "resolved" /\ alerts' = (alerts \ {a}) \cup {[a EXCEPT !.status = "resolved"]}
  /\ UNCHANGED <<now, rules, firingStates, cooldowns, lastUnmet>>

AlertNext ==
  \/ Tick
  \/ \E r \in Rules : \/ RemoveRule(r) \/ Evaluate(r)
                     \/ \E definition \in Definitions : AddRule(r, definition)
  \/ \E a \in alerts : AcknowledgeAlert(a) \/ ResolveAlert(a)

Spec == Init /\ [][AlertNext]_alertVars

-----------------------------------------------------------------------------
(* An alert means that for the duration of the rule in force no evaluation   *)
(* found the condition then in force unmet, whatever cooldowns, resolutions,  *)
(* removed, overwritten and disabled rules came in between, and that the id  *)
(* was registered for so long.  And one alert of a rule is enough.           *)
AlertsAreSustained ==
  [][\A a \in alerts' \ alerts : a.status = "firing" =>
       /\ a.at - lastUnmet[a.rule] >= rules[a.rule].durationMs
       /\ Active(a.rule) = {}]_alertVars

-----------------------------------------------------------------------------
(* What the code does not keep: that the condition of the rule that fires    *)
(* held for its duration.  addRule leaves the firing state of the rule it    *)
(* overwrites, so the time its condition held counts for the new one.       *)
NewConditionStartsAnew ==
  [][\A r \in DOMAIN rules \cap DOMAIN rules' : rules'[r] # rules[r] => firingStates'[r] = -1]_alertVars
=============================================================================
