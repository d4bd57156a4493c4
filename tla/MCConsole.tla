----------------------------- MODULE MCConsole -----------------------------
(* The doors, and what is kept behind them: the throttle and the rate      *)
(* limiter; the choice of a channel and the owner of a response; the       *)
(* settings, channels, tokens and groups the console edits; the secrets,   *)
(* the saved images and the client's files. They share no state here, so a *)
(* behaviour of the instance runs one of them and leaves the others as they *)
(* started: every state of each of them is reached, and none of their      *)
(* products.                                                               *)
EXTENDS Throttle, RateLimiter, Routing, ResponseRoutes,
        RuntimeSettings, ChannelRecords, TokenGroups,
        Secrets, ImageStore, LocalFiles, TLC

\* Two remote addresses and the local machine.
MCKind == [c \in Clients |-> IF c = "local" THEN "loopback" ELSE "remote"]
MCLimits == {[requests |-> 1, window |-> 2], [requests |-> 2, window |-> 3]}

\* An exact match under another's id for a name, a mapping or a prefix, and a
\* spare that may have no weight; requests by name, by model and by neither.
RouteTo == [name |-> "", groups |-> {1}, names |-> <<>>, prefixes |-> {}, mappings |-> <<>>,
            priority |-> 0, weight |-> 1]
MCNormal == [m \in {"Gpt", "gpt", "mini", ""} |-> IF m = "Gpt" THEN "gpt" ELSE m]
MCStarts == {<<"gpt", "g">>}
MCSnapshots ==
    {[c \in {"1", "2", "3"} |->
        CASE c = "1" -> [RouteTo EXCEPT !.name = "2", !.names = <<"Gpt", "gpt">>, !.groups = {1, 2}]
          [] c = "2" -> [RouteTo EXCEPT !.name = "pool", !.prefixes = {"g"}, !.mappings = mapped, !.priority = 1]
          [] c = "3" -> [RouteTo EXCEPT !.name = "spare", !.names = <<"mini">>, !.prefixes = {"g"}, !.weight = weight]] :
       weight \in {0, 1}, mapped \in {<<>>, [m \in {"gpt"} |-> ""], [m \in {"mini"} |-> "gpt"]}}
MCAsks == {[selector |-> s, model |-> m, group |-> 1] : s \in {"", "2"}, m \in {"Gpt", "mini"}} \cup
          {[selector |-> "", model |-> "", group |-> 1], [selector |-> "2", model |-> "gpt", group |-> 2]}

\* One channel with a key, and one that signs in with its headers.
MCChannels0 == [c \in {"c", "d"} |-> [header |-> "B", keys |-> IF c = "c" THEN [k \in {1} |-> "A"] ELSE <<>>]]

Listed(i, v, e) == [id |-> i, value |-> v, enabled |-> e]
MCKeyEdits ==
    {[kind |-> "keep"], [kind |-> "clear"], [kind |-> "legacy", value |-> "b"]} \cup
    {[kind |-> "list", list |-> l] :
       l \in {<<Listed(0, "a", TRUE)>>, <<Listed(0, "a", FALSE), Listed(0, "b", TRUE)>>,
              <<Listed(2, "", TRUE), Listed(0, "a", TRUE)>>, <<Listed(2, "b", FALSE), Listed(1, "", TRUE)>>,
              <<Listed(1, "", TRUE), Listed(1, "", TRUE)>>}}
MCSwitches == {<<"", FALSE>>, <<"yes", TRUE>>, <<"no", TRUE>>}

\* Two runs of different providers.
MCProvider == [r \in Runs |-> IF r = "r2" THEN "p2" ELSE "p1"]
MCSetting == [r \in Runs |-> r]
MCReplace == [r \in Runs |-> r = "r3"]

VARIABLE running
doorVars == <<throttleVars, limiterVars, routeVars, responseVars>>
editVars == <<settingsVars, recordVars, groupVars>>
diskVars == <<secretVars, imageVars, fileVars>>
vars == <<running, doorVars, editVars, diskVars>>

\* The routing table and the request do not matter where nobody routes.
OneRoute ==
    /\ RoutingInit
    /\ snapshot = CHOOSE s \in Snapshots : TRUE
    /\ ask = CHOOSE a \in Asks : TRUE
    /\ ailing = {}

Init ==
    /\ ThrottleInit /\ LimiterInit /\ ResponsesInit
    /\ SettingsInit /\ RecordsInit /\ GroupsInit
    /\ SecretsInit /\ ImagesInit /\ FilesInit
    /\ \/ running = "routing" /\ RoutingInit
       \/ /\ running \in {"throttle", "limiter", "responses", "settings", "records", "groups",
                          "secrets", "images", "files"}
          /\ OneRoute

DoorsNext ==
    /\ UNCHANGED <<running, editVars, diskVars>>
    /\ \/ running = "throttle" /\ ThrottleNext /\ UNCHANGED <<limiterVars, routeVars, responseVars>>
       \/ running = "limiter" /\ LimiterNext /\ UNCHANGED <<throttleVars, routeVars, responseVars>>
       \/ running = "routing" /\ RoutingNext /\ UNCHANGED <<throttleVars, limiterVars, responseVars>>
       \/ running = "responses" /\ ResponsesNext /\ UNCHANGED <<throttleVars, limiterVars, routeVars>>

EditsNext ==
    /\ UNCHANGED <<running, doorVars, diskVars>>
    /\ \/ running = "settings" /\ SettingsNext /\ UNCHANGED <<recordVars, groupVars>>
       \/ running = "records" /\ RecordsNext /\ UNCHANGED <<settingsVars, groupVars>>
       \/ running = "groups" /\ GroupsNext /\ UNCHANGED <<settingsVars, recordVars>>

DiskNext ==
    /\ UNCHANGED <<running, doorVars, editVars>>
    /\ \/ running = "secrets" /\ SecretsNext /\ UNCHANGED <<imageVars, fileVars>>
       \/ running = "images" /\ ImagesNext /\ UNCHANGED <<secretVars, fileVars>>
       \/ running = "files" /\ FilesNext /\ UNCHANGED <<secretVars, imageVars>>

Next == DoorsNext \/ EditsNext \/ DiskNext
Spec == Init /\ [][Next]_vars

(* Every variable of the components has its shape. *)
TypeOK ==
    /\ ThrottleTypeOK /\ LimiterTypeOK /\ RoutingTypeOK /\ ResponsesTypeOK
    /\ SettingsTypeOK /\ RecordsTypeOK /\ GroupsTypeOK
    /\ SecretsTypeOK /\ ImagesTypeOK /\ FilesTypeOK

(* A request is sent where it may go: from better to worse channels of its  *)
(* token's group, and a stored response only back to the account that made  *)
(* it for that token (proxy/matcher.go:303-457, db/response.go:41-58).      *)
RequestsAreRouted == FailoverIsOrderly /\ ResponsesStayHome

(* What the console edits agrees with itself: a channel's mirrored key is   *)
(* its first enabled one, and no token or channel is in a group that is     *)
(* gone (db/upstream_keys.go:276-283, db/group.go:160-222).                 *)
RecordsAgree == MirrorIsFirstKey /\ NothingDangling

(* What is on disk survives whoever dies writing it: every secret can be    *)
(* read under a key that is there, an image is whole, and no edit beside a  *)
(* writer of a client's file is lost (db/secret.go:125-185,                 *)
(* imagestore/store.go:168-201, localfile/file.go:123-177).                 *)
DiskIsWhole == SecretsStayReadable /\ ImagesAreWhole /\ EditsAreKept
=============================================================================
