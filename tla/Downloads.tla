------------------------------- MODULE Downloads -------------------------------
(***************************************************************************)
(* A console's downloads: the profile that the commands prepare            *)
(* (Provisioning) and the server that answers the console (ContentServer). *)
(* The one writes the console's files and the other reads its own, so they *)
(* share no state: a behaviour is one of either.                           *)
(***************************************************************************)
EXTENDS Provisioning

CONSTANTS MaxEdition, Collected, Expires, MaxClock, Listing, Area, Number, Direct, Routes,
          Keyed

VARIABLES active, live, todo, building, current, server, answers, clock

serving == <<live, todo, building, current, server, answers, clock>>

Serving == INSTANCE ContentServer

SuiteInit == active \in {"profile", "server"} /\ Init /\ Serving!Init

SuiteNext ==
  /\ UNCHANGED active
  /\ \/ active = "profile" /\ Next /\ UNCHANGED serving
     \/ active = "server" /\ Serving!Next /\ UNCHANGED vars

suite == <<active, vars, serving>>

SuiteSpec == SuiteInit /\ [][SuiteNext]_suite

\* Each is the property of that name in ContentServer: what preflight has passed is
\* refused later only for what has changed since or was not looked at (serve).
PreflightAgreesWithServe == active = "server" => Serving!PreflightAgreesWithServe

\* Whatever has been published and replaced since preflight, the route of a reachable
\* task, padded or not, is answered with that task (do_GET).
PreflightedTaskIsServed == active = "server" => Serving!PreflightedTaskIsServed

\* A process answers from one edition (ContentServer).
OneEditionPerProcess == active = "server" => Serving!OneEditionPerProcess
================================================================================
