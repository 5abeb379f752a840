----------------------------- MODULE ShakeControl -----------------------------
(***************************************************************************)
(* SensorShakeControlManager: which applications' motion events the        *)
(* product's privacy policies hold back.  The manager keeps a copy of the  *)
(* policies of the user it takes for the active one, fetched again each    *)
(* time an observer reports a change, and a list of applications that are  *)
(* never controlled, from a system parameter.  The service feeds it with   *)
(* the common events BOOT_COMPLETED and USER_SWITCHED, to which it         *)
(* subscribes when the event service appears.                              *)
(*                                                                         *)
(* Threads: the one that serves OnAddSystemAbility (sa), the one that      *)
(* delivers common events in order (doing), the callbacks of the privacy   *)
(* manager (jobs), the parameter watcher, and the binder threads of the    *)
(* applications.  The privacy manager, the account manager and the         *)
(* parameters are outside; each call to them may fail.  Asking for the     *)
(* active user and storing the answer is one step here.                    *)
(***************************************************************************)
EXTENDS FiniteSets, SequencesExt

CONSTANTS
    Users,
    DefaultUser,  \* INVALID_USERID: 100, which a user may well have
    Apps,         \* applications that are not part of the system, by token
    MaxSwitches,  \* bound: user switches
    MaxChanges,   \* bound: changes of the policies and of the parameter
    MaxFailures,  \* bound: calls that fail
    MaxJobs,      \* bound: callbacks of the privacy manager under way
    NoUser        \* an application without a channel

ASSUME DefaultUserAssumption == DefaultUser \in Users

VARIABLES
    active,         \* the account manager's active user
    policy,         \* the privacy manager's policies: user -> app -> value
    observed,       \* users with an observer at the privacy manager
    parameter,      \* shake_ignore_control
    booted,         \* bootevent.boot.completed
    sa,             \* where OnAddSystemAbility is
    subscribed,     \* common events the service subscribes to
    events,         \* common events on their way
    doing,          \* what is left of the event being handled
    jobs,           \* callbacks of the privacy manager: slot -> job
    news,           \* values the parameter watcher has still to report
    currentUserId,  \* currentUserId_
    userKnown,      \* isUpdateCurrentUserId_
    ready,          \* isSensorShakeControlManagerReady_
    controlled,     \* shakeSensorControlAppInfoList_, pairs <<app, user>>
    open,           \* shakeSensorNoControlAppInfoList_
    ignored,        \* shakeIgnoreControlList_
    watched,        \* hasWatched_
    channel,        \* the user id in each application's channel
    asking,         \* applications between CheckAppInfoIsNeedModify and ModifyAppPolicy
    doubt,          \* history: what Followed excepts
    spent           \* counters for the bounds

outside == <<active, policy, parameter, booted>>
lists == <<controlled, open>>
apps == <<channel, asking>>
manager == <<currentUserId, userKnown, ready, lists, ignored, watched>>
shakeVars == <<outside, observed, sa, subscribed, events, doing, jobs, news,
          manager, apps, doubt, spent>>

Values == {"none", "close", "open"}
Slots == 1 .. MaxJobs
\* newer: the jobs that asked after this one; late: one of them has stored.
New(at, first) ==
    [at |-> at, found |-> {}, first |-> first, newer |-> {}, late |-> FALSE]
Free == New("free", FALSE)

ShakeInit ==
    /\ active \in Users
    /\ policy \in [Users -> [Apps -> {"none", "close"}]]
    /\ observed = {} /\ parameter \in SUBSET Apps
    /\ booted \in BOOLEAN
    /\ sa = "start" /\ subscribed = {} /\ events = <<>> /\ doing = <<>>
    /\ jobs = [j \in Slots |-> Free] /\ news = <<>>
    /\ currentUserId = DefaultUser /\ userKnown = FALSE /\ ready = FALSE
    /\ controlled = {} /\ open = {} /\ ignored = {} /\ watched = FALSE
    /\ channel = [a \in Apps |-> NoUser] /\ asking = {}
    /\ doubt = {}
    /\ spent = [switches |-> 0, changes |-> 0, failures |-> 0]

Fails == /\ spent.failures < MaxFailures
         /\ spent' = [spent EXCEPT !.failures = @ + 1]
         /\ doubt' = doubt \cup {"failed"}
Works == UNCHANGED <<spent, doubt>>

\* A callback of the privacy manager starts in a free slot.
Start(at, first) ==
    \E j \in Slots :
        /\ jobs[j].at = "free" /\ \A i \in 1 .. j - 1 : jobs[i].at # "free"
        /\ jobs' = [jobs EXCEPT ![j] = New(at, first)]

-----------------------------------------------------------------------------
(* Outside                                                                 *)

\* The event reaches who has subscribed to it.
Publish(event) ==
    /\ events' = IF event \in subscribed THEN Append(events, event) ELSE events
    /\ doubt' = IF event \in subscribed THEN doubt ELSE doubt \cup {event}

SwitchUser ==
    /\ spent.switches < MaxSwitches
    /\ \E u \in Users \ {active} : active' = u
    /\ spent' = [spent EXCEPT !.switches = @ + 1]
    /\ Publish("USER_SWITCHED")
    /\ UNCHANGED <<policy, observed, parameter, booted, sa, subscribed, doing, jobs,
                   news, manager, apps>>

CompleteBoot ==
    /\ ~booted /\ booted' = TRUE
    \* OnAddSystemAbility may still read the property it has yet to read
    /\ IF sa = "start" THEN UNCHANGED <<events, doubt>> ELSE Publish("BOOT_COMPLETED")
    /\ UNCHANGED <<active, policy, observed, parameter, sa, subscribed, doing, jobs,
                   news, manager, apps, spent>>

\* The policy of an application changes, and the observer is called.
SetPolicy(u, a, v) ==
    /\ policy[u][a] # v /\ spent.changes < MaxChanges
    /\ policy' = [policy EXCEPT ![u][a] = v]
    /\ spent' = [spent EXCEPT !.changes = @ + 1]
    /\ IF u \in observed THEN Start("query", FALSE) ELSE UNCHANGED jobs

UserSetsPolicy ==
    /\ \E u \in Users, a \in Apps, v \in Values : SetPolicy(u, a, v)
    /\ UNCHANGED <<active, observed, parameter, booted, sa, subscribed, events, doing,
                   news, manager, apps, doubt>>

SetParameter ==
    /\ spent.changes < MaxChanges
    /\ spent' = [spent EXCEPT !.changes = @ + 1]
    /\ \E S \in SUBSET Apps \ {parameter} :
        /\ parameter' = S
        /\ news' = IF watched THEN Append(news, S) ELSE news
    \* between GetShakeIgnoreControl and WatchParameter nobody is told
    /\ doubt' = IF doing # <<>> /\ Head(doing) = "watch" THEN doubt \cup {"unwatched"} ELSE doubt
    /\ UNCHANGED <<active, policy, booted, observed, sa, subscribed, events, doing, jobs,
                   manager, apps>>

-----------------------------------------------------------------------------
(* The service                                                             *)

InitShakeControl == <<"load", "update", "create", "known">>

\* OnAddSystemAbility reads whether the boot is over.
OnAddSystemAbility ==
    /\ sa = "start"
    /\ IF booted THEN sa' = "user" /\ doing' = InitShakeControl
                 ELSE sa' = "boot" /\ UNCHANGED doing
    /\ UNCHANGED <<outside, observed, subscribed, events, jobs, news, manager, apps,
                   doubt, spent>>

\* SubscribeCommonEvent
SubscribeCommonEvent(at, event, next) ==
    /\ sa = at /\ sa' = next
    /\ \/ subscribed' = subscribed \cup {event} /\ Works
       \/ subscribed' = subscribed /\ Fails
    /\ UNCHANGED <<outside, observed, events, doing, jobs, news, manager, apps>>

SubscribeBoot == SubscribeCommonEvent("boot", "BOOT_COMPLETED", "user")
\* The thread that initialises goes on only then.
SubscribeSwitch ==
    /\ "BOOT_COMPLETED" \in subscribed \/ doing = <<>>
    /\ SubscribeCommonEvent("user", "USER_SWITCHED", "done")

\* OnReceiveBootEvent begins with RegisterShakeControlParameter.
OnReceiveBootEvent ==
    /\ doing = <<>> /\ events # <<>> /\ Head(events) = "BOOT_COMPLETED"
    /\ events' = Tail(events)
    /\ doing' = IF watched THEN <<"ready?">> ELSE <<"get", "watch", "ready?">>
    /\ UNCHANGED <<outside, observed, sa, subscribed, jobs, news, manager, apps, doubt, spent>>

\* Mutant: the user is asked for last.
AskedLastMutant == <<"load", "unregister", "create", "renew">>

\* UpdateRegisterShakeSensorControlObserver
SwitchSteps == <<"load", "unregister", "renew", "create">>

OnReceiveUserSwitchEvent ==
    /\ doing = <<>> /\ events # <<>> /\ Head(events) = "USER_SWITCHED"
    /\ events' = Tail(events)
    /\ doing' = SwitchSteps
    /\ UNCHANGED <<outside, observed, sa, subscribed, jobs, news, manager, apps, doubt, spent>>

\* The next step of what is being done.
Next1(op) == doing # <<>> /\ Head(doing) = op
Goes == doing' = Tail(doing)
Ends == doing' = <<>>
other == <<outside, sa, subscribed, events, news, apps>>

CheckReady ==
    /\ Next1("ready?")
    /\ doing' = IF ready THEN <<>> ELSE InitShakeControl
    /\ UNCHANGED <<other, observed, jobs, manager, doubt, spent>>

LoadSecurityPrivacyManager ==
    /\ Next1("load")
    /\ \/ Goes /\ Works
       \/ Ends /\ Fails
    /\ UNCHANGED <<other, observed, jobs, manager>>

-----------------------------------------------------------------------------
(* The manager                                                             *)

GetShakeIgnoreControl ==
    /\ Next1("get") /\ Goes
    /\ ignored' = parameter
    /\ UNCHANGED <<other, observed, jobs, currentUserId, userKnown, ready, lists, watched,
                   doubt, spent>>

RegisterShakeControlParameter ==
    /\ Next1("watch") /\ Goes
    /\ \/ watched' = TRUE /\ Works
       \/ watched' = FALSE /\ Fails
    /\ UNCHANGED <<other, observed, jobs, currentUserId, userKnown, ready, lists, ignored>>

OnParameterChanged ==
    /\ news # <<>> /\ news' = Tail(news)
    \* an empty value is refused
    /\ IF Head(news) = {}
       THEN UNCHANGED ignored /\ doubt' = doubt \cup {"emptied"}
       ELSE ignored' = Head(news) /\ doubt' = doubt \ {"emptied"}
    /\ UNCHANGED <<outside, observed, sa, subscribed, events, doing, jobs, currentUserId,
                   userKnown, ready, lists, watched, apps, spent>>

\* UpdateCurrentUserId, in Init and after a switch (renew): the latter goes on
\* all the same.
UpdateCurrentUserId ==
    /\ Next1("update") \/ Next1("renew")
    /\ \/ /\ currentUserId' = active /\ Goes
          /\ doubt' = doubt \ {"USER_SWITCHED"} /\ UNCHANGED spent
       \/ /\ UNCHANGED currentUserId /\ Fails
          /\ IF Next1("update") THEN Ends ELSE Goes
    /\ UNCHANGED <<other, observed, jobs, userKnown, ready, lists, ignored, watched>>

UnregisterShakeSensorControlObserver ==
    /\ Next1("unregister") /\ Goes
    /\ \/ observed' = observed \ {currentUserId} /\ Works
       \/ observed' = observed /\ Fails
    /\ UNCHANGED <<other, jobs, manager>>

\* RegisterShakeSensorControlObserver: createCallBack is called later.
CreateAppPolicyDB ==
    /\ Next1("create")
    /\ \/ Start("created", TRUE) /\ Goes /\ Works
       \/ UNCHANGED jobs /\ Ends /\ Fails
    /\ UNCHANGED <<other, observed, manager>>

\* InitShakeControl has succeeded: the binder threads need not ask for the user.
UserKnown ==
    /\ Next1("known") /\ Goes
    /\ userKnown' = TRUE
    /\ UNCHANGED <<other, observed, jobs, currentUserId, ready, lists, ignored, watched,
                   doubt, spent>>

background == <<outside, sa, subscribed, events, doing, news, apps>>

\* createCallBack: on failure nobody observes and nothing is fetched.
CreateCallBack(j) ==
    /\ jobs[j].at = "created"
    /\ \/ /\ observed' = observed \cup {currentUserId} /\ Works
          /\ jobs' = [jobs EXCEPT ![j].at = "query"] /\ UNCHANGED ready
       \/ /\ ready' = FALSE /\ Fails
          /\ jobs' = [jobs EXCEPT ![j] = Free] /\ UNCHANGED observed
    /\ UNCHANGED <<background, currentUserId, userKnown, lists, ignored, watched>>

\* After the query, stored or not, the first fetch makes the manager ready.
Done(j) == ready' = (ready \/ jobs[j].first)

\* InitShakeSensorControlAppInfos: the query, outside the lock
QueryAppPolicyByPolicyName(j) ==
    /\ jobs[j].at = "query"
    /\ \/ /\ jobs' = [i \in Slots |->
                        IF i = j THEN [jobs[j] EXCEPT !.at = "store",
                                           !.found = {<<a, policy[currentUserId][a]>> : a \in Apps}]
                        ELSE IF jobs[i].at = "store" THEN [jobs[i] EXCEPT !.newer = @ \cup {j}]
                        ELSE jobs[i]]
          /\ Works /\ UNCHANGED ready
       \/ jobs' = [jobs EXCEPT ![j] = Free] /\ Done(j) /\ Fails
    /\ UNCHANGED <<background, observed, currentUserId, userKnown, lists, ignored, watched>>

\* InitShakeSensorControlAppInfos: under the lock, labelled with the user of now
Listed(j, closed) == {<<a, currentUserId>> : a \in {b \in Apps : \E v \in closed : <<b, v>> \in jobs[j].found}}

InitShakeSensorControlAppInfos(j) ==
    /\ jobs[j].at = "store"
    /\ controlled' = Listed(j, {"close"})
    /\ open' = Listed(j, {"open"})
    /\ Done(j)
    /\ jobs' = [i \in Slots |-> IF i = j THEN Free
                  ELSE [jobs[i] EXCEPT !.late = @ \/ j \in jobs[i].newer, !.newer = @ \ {j}]]
    \* overtaken: until the next fetch the lists are an older answer
    /\ doubt' = IF jobs[j].late THEN doubt \cup {"overtaken"} ELSE doubt \ {"overtaken"}
    /\ UNCHANGED <<background, observed, currentUserId, userKnown, ignored, watched, spent>>

-----------------------------------------------------------------------------
(* Applications                                                            *)

\* UpdateCurrentUserId of the service: once, unless it fails
AskForUser ==
    /\ ~userKnown /\ booted
    /\ userKnown' = TRUE /\ currentUserId' = active /\ Works

KeepUser == UNCHANGED <<currentUserId, userKnown>>

\* The channel keeps the user id of now.
TransferDataChannel(a) ==
    /\ \/ AskForUser
       \/ ~userKnown /\ booted /\ KeepUser /\ Fails
       \/ userKnown /\ KeepUser /\ Works
       \/ ~booted /\ KeepUser /\ Works
    /\ channel' = [channel EXCEPT ![a] = currentUserId']
    /\ UNCHANGED <<outside, observed, sa, subscribed, events, doing, jobs, news, ready, lists,
                   ignored, watched, asking>>

CheckAppInfoIsNeedModify(a, u) == <<a, u>> \notin open \cup controlled

\* NotifyAppSubscribeSensor, from EnableSensor
NotifyAppSubscribeSensor(a) ==
    /\ ready /\ channel[a] # NoUser /\ spent.changes < MaxChanges
    /\ \A u \in Users : <<a, u>> \notin asking
    /\ CheckAppInfoIsNeedModify(a, currentUserId)
    /\ asking' = asking \cup {<<a, currentUserId>>}
    /\ UNCHANGED <<outside, observed, sa, subscribed, events, doing, jobs, news, manager,
                   channel, doubt, spent>>

\* The privacy manager adds the application with a policy of its own choice.
ModifyAppPolicy ==
    /\ \E au \in asking :
        /\ asking' = asking \ {au}
        /\ \/ /\ \E v \in {"close", "open"} : SetPolicy(au[2], au[1], v)
              /\ UNCHANGED doubt
           \/ UNCHANGED <<policy, jobs, spent, doubt>>
    /\ UNCHANGED <<active, observed, parameter, booted, sa, subscribed, events, doing, news,
                   manager, channel>>

-----------------------------------------------------------------------------

ShakeNext ==
    \/ SwitchUser \/ CompleteBoot \/ UserSetsPolicy \/ SetParameter
    \/ OnAddSystemAbility \/ SubscribeBoot \/ SubscribeSwitch
    \/ OnReceiveBootEvent \/ OnReceiveUserSwitchEvent \/ CheckReady
    \/ LoadSecurityPrivacyManager \/ GetShakeIgnoreControl
    \/ RegisterShakeControlParameter \/ OnParameterChanged
    \/ UpdateCurrentUserId \/ UnregisterShakeSensorControlObserver \/ CreateAppPolicyDB
    \/ UserKnown
    \/ \E j \in Slots :
        CreateCallBack(j) \/ QueryAppPolicyByPolicyName(j) \/ InitShakeSensorControlAppInfos(j)
    \/ \E a \in Apps :
        TransferDataChannel(a) \/ NotifyAppSubscribeSensor(a)
    \/ ModifyAppPolicy

ShakeSpec == ShakeInit /\ [][ShakeNext]_shakeVars

-----------------------------------------------------------------------------
(* Properties                                                              *)

\* SendRawData skips a channel's motion events.
CheckAppIsNeedControl(a) ==
    a \notin ignored /\ <<a, channel[a]>> \in controlled

Quiet ==
    /\ booted /\ sa = "done" /\ events = <<>> /\ doing = <<>> /\ news = <<>>
    /\ \A j \in Slots : jobs[j].at = "free"

\* Once nothing is on its way, an application's motion events are held back
\* exactly if the active user's policy closes them, its channel is from the
\* time of that user, and the parameter, if it is watched, does not excuse it
\* (sensor_shake_control_manager.cpp, CheckAppIsNeedControl).  Excepted: a
\* call outside failed, an event came before the service had subscribed to
\* it, the parameter changed between being read and being watched, and the
\* last fetch to be stored is not the last that asked, or the
\* parameter was emptied (an empty value is refused).
Followed ==
    Quiet /\ doubt = {} =>
        \A a \in Apps : channel[a] # NoUser =>
            (CheckAppIsNeedControl(a) <=>
                /\ channel[a] = active /\ policy[active][a] = "close"
                /\ ~(watched /\ a \in parameter))

=============================================================================
