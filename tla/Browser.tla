-------------------------------- MODULE Browser --------------------------------
(* The web application in front of the API: the pages a visitor signs in through, *)
(* what the query cache shows, a listing read page by page, the controls a page    *)
(* offers, and the triage of findings. They share no state that any of them        *)
(* relies on, so a behaviour follows one of them and a run explores the sum.       *)
EXTENDS AuthFlows, PageCache, FindingsList, PageOffers, FindingsDesk

VARIABLE screen   \* the part a behaviour follows

browserVars == <<screen, authVars, cacheVars, listVars, offerVars, deskVars>>

Screens == {"signing in", "cache", "list", "offers", "desk"}

\* A part that is not followed stays in one of its initial states.
BrowserInit ==
  /\ screen \in Screens
  /\ AuthInit
  /\ CacheInit
  /\ screen # "cache" => query = UsersQuery /\ change = UserChange
  /\ ListInit
  /\ screen # "list" => found = (CHOOSE t \in Tables : TRUE) /\ \A p \in Prints : triaged[p] = "none"
  /\ OffersInit
  /\ screen # "offers" => page = "target" /\ now = CHOOSE f \in Facts("target") : TRUE
  /\ DeskInit
  /\ screen # "desk" => oneScan

BrowserNext ==
  /\ UNCHANGED screen
  /\ \/ screen = "signing in" /\ AuthNext /\ UNCHANGED <<cacheVars, listVars, offerVars, deskVars>>
     \/ screen = "cache" /\ CacheNext /\ UNCHANGED <<authVars, listVars, offerVars, deskVars>>
     \/ screen = "list" /\ ListNext /\ UNCHANGED <<authVars, cacheVars, offerVars, deskVars>>
     \/ screen = "offers" /\ OffersNext /\ UNCHANGED <<authVars, cacheVars, listVars, deskVars>>
     \/ screen = "desk" /\ DeskNext /\ UNCHANGED <<authVars, cacheVars, listVars, offerVars>>

BrowserSpec == BrowserInit /\ [][BrowserNext]_browserVars

\* Type invariant of the five parts.
BrowserTypeOK == AuthTypeOK /\ CacheTypeOK /\ ListTypeOK /\ OffersTypeOK /\ DeskTypeOK
=============================================================================
