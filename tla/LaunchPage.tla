------------------------------ MODULE LaunchPage ------------------------------
(***************************************************************************)
(* DeliveryServer/index.js: the controller of the pages that list the      *)
(* deliveries a test-taker may start or resume, and of the waiting page.   *)
(* An entry point is launched by a click or a key; until the answer comes  *)
(* the page lives on, and a flag keeps it from launching again.            *)
(***************************************************************************)
EXTENDS Browser

VARIABLES
  deliveryStarted,   \* the page has launched a delivery
  offered            \* the addresses of its entry points

launchVars == <<deliveryStarted, offered>>

\* The entry point of a delivery that may not be taken has class 'disabled'.
Disabled == <<"#">>

\* The waiting page was opened without an address.
Blank == NoUrl

Entry == {<<"init">>, Disabled, Blank} \cup {<<"run", e>> : e \in Execution}

Keys == {"enter", "space", "tab"}
accessibilityLaunchKeyCodes == {"enter", "space"}

LaunchInit == deliveryStarted = FALSE /\ offered = {<<"init">>}

\* start: a page with these entry points is loaded.
StartList(entries) == deliveryStarted' = FALSE /\ offered' = entries

\* Mutant: the flag is set before the address is looked at.
RunDeliveryFlagsFirst(url) ==
  /\ deliveryStarted' = TRUE
  /\ IF url # Blank THEN GoTo(url) ELSE UNCHANGED <<nav, lost>>

RunDelivery(url) ==
  IF url # Blank
  THEN deliveryStarted' = TRUE /\ GoTo(url)
  ELSE UNCHANGED <<deliveryStarted, nav, lost>>

\* Mutant: the flag is not looked at.
LaunchDeliveryAgain(entry) == entry # Disabled /\ RunDelivery(entry)

LaunchDelivery(entry) ==
  ~deliveryStarted /\ entry # Disabled /\ RunDelivery(entry)

Launches(entry) ==
  /\ page = "list" /\ entry \in offered
  /\ LaunchDelivery(entry)
  /\ UNCHANGED <<page, interrupted, offered>>

ClickEntry == \E entry \in offered : Launches(entry)

KeyUpEntry ==
  \E entry \in offered, key \in Keys :
    key \in accessibilityLaunchKeyCodes /\ Launches(entry)

LaunchTypeOK == deliveryStarted \in BOOLEAN /\ offered \subseteq Entry
=============================================================================
