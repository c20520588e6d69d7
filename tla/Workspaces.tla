------------------------------ MODULE Workspaces ------------------------------
(***************************************************************************)
(* One browser and the workspaces of its user: signing in and out, the     *)
(* User row that an account's first requests create, workspaces that are   *)
(* founded, joined by invitation and switched, the cookie that remembers   *)
(* the last one, and the tabs that show them.  A render of /app runs two   *)
(* API requests at once; what a tab shows stays as the session goes by.    *)
(***************************************************************************)

EXTENDS Naturals, Sequences, FiniteSetsExt, Functions

CONSTANTS
  Accounts,      (* at the identity provider                               *)
  Tabs,
  Given,         (* [Accounts -> sequences of the workspaces they have]    *)
  Invited,       (* [Accounts -> workspaces they have an invitation to]    *)
  New,           (* workspaces that are going to be founded                *)
  None, Home,    (* nobody or nowhere; the page /app                       *)
  MaxMoves,      (* bound: what the user does                              *)
  MaxFaults      (* bound: answers that are lost                           *)

Workspace == New \cup UNION {Range(Given[a]) \cup Invited[a] : a \in Accounts}

ASSUME WorkspacesAssumption ==
  /\ None \notin Accounts \cup Workspace /\ Home \notin Workspace \cup {None}
  /\ Given \in [Accounts -> Seq(Workspace)] /\ Invited \in [Accounts -> SUBSET Workspace]
  /\ \A a \in Accounts : Range(Given[a]) \cap (New \cup Invited[a]) = {} /\ Invited[a] \cap New = {}
  /\ MaxMoves \in Nat /\ MaxFaults \in Nat

VARIABLES
  users,         (* accounts with a User row                               *)
  members,       (* per account: its memberships, oldest first             *)
  invited,       (* per account: invitations that are pending              *)
  session,       (* the account that is signed in                          *)
  cookie,        (* opsdesk_active_organization                            *)
  tab,           (* what each tab shows, and what it waits for             *)
  posts,         (* requests to store the preference, numbered as sent     *)
  moves, faults,
  shown,         (* history: the workspace that some tab came to last      *)
  flawed         (* history: a preference was lost, refused or overtaken   *)

apiVars  == <<users, members, invited>>
histVars == <<shown, flawed>>
vars     == <<apiVars, session, cookie, tab, posts, moves, faults, histVars>>

Nothing == [what |-> "nothing"]
Idle    == [to |-> None]

\* A tab; "listed" are the workspaces of its switcher, "listedLate" says that
\* their refresh was given up for another navigation, "mixed" that it went on
\* for another account than it was loaded for.
Blank == [page |-> "blank", org |-> None, back |-> None, listed |-> {}, listedLate |-> FALSE, mixed |-> FALSE,
          account |-> None, sentFor |-> None, knew |-> FALSE, doing |-> Nothing, going |-> Idle]

Init ==
  /\ users \in SUBSET Accounts /\ \A a \in Accounts : Given[a] # <<>> => a \in users
  /\ members = Given /\ invited = Invited
  /\ session = None /\ cookie = None
  /\ tab = [t \in Tabs |-> Blank]
  /\ posts = {}
  /\ moves = 0 /\ faults = 0 /\ shown = None /\ flawed = FALSE

Move  == moves < MaxMoves /\ moves' = moves + 1
Fault == faults < MaxFaults /\ faults' = faults + 1

Becomes(t, r) == tab' = [tab EXCEPT ![t] = r]

-----------------------------------------------------------------------------
(* Navigation.  "load" and "refresh" render the layout of /app, "push" only  *)
(* what is below it.                                                         *)

Requests(kind) == IF kind = "push" THEN {"organizations"} ELSE {"me", "organizations"}

\* A new navigation replaces the one under way, but not the refresh after it; a
\* refresh that is running is given up.  Without a session one is sent to sign in.
Going(r, who, to, kind, refresh, sentFor) ==
  IF who = None THEN Blank
  ELSE [r EXCEPT
          !.going = [to |-> to, kind |-> kind, who |-> who, saw |-> <<>>, sentFor |-> sentFor,
                     knew |-> who \in users, calls |-> [c \in Requests(kind) |-> "sent"],
                     refresh |-> refresh \/ (r.going # Idle /\ r.going.refresh)],
          !.listedLate = @ \/ (r.going # Idle /\ r.going.kind = "refresh")]

Loading(t, c, at) == tab[t].going # Idle /\ c \in DOMAIN tab[t].going.calls /\ tab[t].going.calls[c] = at

\* The request is answered: GET /v1/me, or GET /v1/organizations by createdAt.
Answered(t, c) ==
  Becomes(t, [tab[t] EXCEPT !.going.calls[c] = "done",
                            !.going.saw = IF c = "organizations" THEN members[tab[t].going.who] ELSE @])

\* Mutant: the account is not looked for.
FindUserNever(t, c) ==
  /\ Loading(t, c, "sent")
  /\ Becomes(t, [tab[t] EXCEPT !.going.calls[c] = "no row"])
  /\ UNCHANGED <<apiVars, session, cookie, posts, moves, faults, histVars>>

\* syncAuthenticatedUser: a row that is there is brought up to date.
FindUser(t, c) ==
  /\ Loading(t, c, "sent")
  /\ IF tab[t].going.who \in users THEN Answered(t, c)
     ELSE Becomes(t, [tab[t] EXCEPT !.going.calls[c] = "no row"])
  /\ UNCHANGED <<apiVars, session, cookie, posts, moves, faults, histVars>>

\* ... and one that is not is created, unless another request was faster: its
\* unique key refuses the second one, and the API answers 500.
CreateUser(t, c) ==
  /\ Loading(t, c, "no row")
  /\ users' = users \cup {tab[t].going.who}
  /\ IF tab[t].going.who \in users
     THEN Becomes(t, [tab[t] EXCEPT !.going.calls[c] = "failed"])
     ELSE Answered(t, c)
  /\ UNCHANGED <<members, invited, session, cookie, posts, moves, faults, histVars>>

Loaded(t) ==
  tab[t].going # Idle /\ \A c \in DOMAIN tab[t].going.calls : tab[t].going.calls[c] = "done"

Show(t, page, org) ==
  LET r == tab[t]
      g == r.going IN
  [r EXCEPT !.page = page, !.org = org,
            !.back = IF page = "workspace" /\ org # r.org THEN r.org ELSE @,
            !.account = g.who, !.sentFor = g.sentFor, !.knew = g.knew,
            !.listed = IF g.kind = "push" THEN @ ELSE Range(g.saw),
            !.listedLate = @ /\ g.kind = "push",
            !.mixed = g.kind # "load" /\ (@ \/ g.who # r.account),
            !.going = Idle]

\* Promise.all of the layout fails as soon as one request does.
RenderFails(t) ==
  /\ \E c \in {"me", "organizations"} : Loading(t, c, "failed")
  /\ Becomes(t, Show(t, "error", None))
  /\ UNCHANGED <<apiVars, session, cookie, posts, moves, faults, histVars>>

\* Mutant: the cookie is taken at its word.
LandingByCookie(saw) == IF cookie # None THEN cookie ELSE Head(saw)

\* preferred ?? organizations[0]
Landing(saw) == IF cookie \in Range(saw) THEN cookie ELSE Head(saw)

\* /app redirects to a workspace, if there is one.
Land(t) ==
  LET g == tab[t].going IN
  /\ Loaded(t) /\ g.to = Home
  /\ Becomes(t, IF g.saw = <<>> THEN Show(t, "empty", None)
                ELSE Going([tab[t] EXCEPT !.going = Idle], session, Landing(g.saw), "load", g.refresh, g.who))
  /\ UNCHANGED <<apiVars, session, cookie, posts, moves, faults, histVars>>

\* getOrganizationForUser found nothing: notFound.
NotFound(t) ==
  LET g == tab[t].going IN
  /\ Loaded(t) /\ g.to # Home /\ g.to \notin Range(g.saw)
  /\ Becomes(t, Show(t, "missing", None))
  /\ UNCHANGED <<apiVars, session, cookie, posts, moves, faults, histVars>>

Number == Max({0} \cup {p.nr : p \in posts}) + 1

Post(t, org, why, known) ==
  posts \cup {[nr |-> Number, tab |-> t, org |-> org, why |-> why, who |-> session, knew |-> session \in known,
               at |-> "sent"]}

\* Mutant: the preference is stored when the page is loaded, not when it changes.
SyncOnLoad(t) == IF tab[t].going.kind = "load" THEN Post(t, tab[t].going.to, "sync", users) ELSE posts

\* The effect of ActiveOrganizationSync.
Sync(t) == IF tab[t].going.kind # "refresh" THEN Post(t, tab[t].going.to, "sync", users) ELSE posts

Arrive(t) ==
  LET g == tab[t].going
      r == Show(t, "workspace", g.to) IN
  /\ Loaded(t) /\ g.to # Home /\ g.to \in Range(g.saw)
  /\ Becomes(t, IF g.refresh THEN Going(r, session, g.to, "refresh", FALSE, g.sentFor) ELSE r)
  /\ posts' = Sync(t)
  /\ shown' = IF g.kind = "refresh" THEN shown ELSE g.to
  /\ UNCHANGED <<apiVars, session, cookie, moves, faults, flawed>>

-----------------------------------------------------------------------------
(* The user.                                                                 *)

\* What a tab has under way ends when its document does.
Abandoned(t) == {p \in posts : p.tab # t}

Leave(t) ==
  /\ posts' = Abandoned(t)
  /\ flawed' = (flawed \/ Abandoned(t) # posts \/ tab[t].going # Idle)

\* The addresses there are: /app, and the workspaces but those yet to be founded.
Addresses == {Home} \cup (Workspace \ New) \cup UNION {Range(members[a]) : a \in Accounts}

\* An address is opened, from a bookmark or a link.
Visit(t, to) ==
  /\ session # None /\ Move
  /\ to \in Addresses
  /\ Leave(t)
  /\ Becomes(t, Going(Blank, session, to, "load", FALSE, None))
  /\ UNCHANGED <<apiVars, session, cookie, faults, shown>>

\* The link of an invitation, which is one account's.
OpenInvitation(t, a) ==
  /\ session # None /\ Invited[a] # {} /\ Move
  /\ Leave(t)
  /\ Becomes(t, [Blank EXCEPT !.page = "invite", !.account = a])
  /\ UNCHANGED <<apiVars, session, cookie, faults, shown>>

\* /auth/logout takes this tab away; the other ones stay, and so does the cookie.
SignOut(t) ==
  /\ session # None /\ Move
  /\ session' = None
  /\ posts' = Abandoned(t)
  /\ flawed' = (flawed \/ posts # {} \/ \E u \in Tabs : tab[u].going # Idle)
  /\ Becomes(t, Blank)
  /\ UNCHANGED <<apiVars, cookie, faults, shown>>

\* One returns to the address that was asked for without a session: /app, a
\* workspace, or an invitation.  The session is there before that page is.
SignIn(t, a) ==
  /\ session = None /\ Leave(t)
  /\ session' = a
  /\ \/ \E to \in Addresses : Becomes(t, Going(Blank, a, to, "load", FALSE, None))
     \/ \E b \in Accounts : Invited[b] # {} /\ Becomes(t, [Blank EXCEPT !.page = "invite", !.account = b])
  /\ UNCHANGED <<apiVars, cookie, moves, faults, shown>>

HasShell(t) == tab[t].page \in {"workspace", "empty", "missing"}

Back(t) ==
  /\ HasShell(t) /\ tab[t].back # None /\ Move
  /\ Becomes(t, Going(tab[t], session, tab[t].back, "push", FALSE, None))
  /\ flawed' = (flawed \/ tab[t].going # Idle)
  /\ UNCHANGED <<apiVars, session, cookie, posts, faults, shown>>

Switching(t) ==
  tab[t].going # Idle /\ tab[t].going.kind = "push" /\ tab[t].going.sentFor # None /\ ~ tab[t].going.refresh

\* The switcher: disabled while a switch is pending; the workspace that is
\* shown only closes it.
SelectOrganization(t, o) ==
  /\ HasShell(t) /\ tab[t].doing = Nothing /\ ~ Switching(t) /\ Move
  /\ o \in tab[t].listed \ {tab[t].org}
  /\ Becomes(t, [tab[t] EXCEPT !.doing = [what |-> "select"]])
  /\ posts' = Post(t, o, "select", users)
  /\ UNCHANGED <<apiVars, session, cookie, faults, histVars>>

Send(t, what) ==
  /\ session # None /\ tab[t].doing = Nothing /\ Move
  /\ Becomes(t, [tab[t] EXCEPT !.doing = [what |-> what, who |-> session, knew |-> session \in users]])
  /\ UNCHANGED <<apiVars, session, cookie, posts, faults, histVars>>

\* The dialog, which can neither be sent again nor closed while it is pending.
SubmitDialog(t) == HasShell(t) /\ Send(t, "found")

\* The button, which is disabled while pending and after success.
PressAccept(t) == tab[t].page = "invite" /\ tab[t].going = Idle /\ Send(t, "join")

-----------------------------------------------------------------------------
(* POST /api/organizations and /api/invitations/accept; the preference is    *)
(* stored next, by the session of that moment.                               *)

Asked(t, what) == tab[t].doing.what = what /\ "who" \in DOMAIN tab[t].doing

\* The requests commit, and are answered or not.
Proceed(t, org) ==
  \/ /\ posts' = Post(t, org, tab[t].doing.what, users')
     /\ Becomes(t, [tab[t] EXCEPT !.doing = [what |-> @.what]])
     /\ UNCHANGED <<faults, flawed>>
  \/ /\ Fault
     /\ Becomes(t, [tab[t] EXCEPT !.doing = Nothing])
     /\ flawed' = TRUE
     /\ UNCHANGED posts

Join(a, org) ==
  /\ users' = users \cup {a}
  /\ members' = [members EXCEPT ![a] = Append(@, org)]

\* A request that was sent before the User row was there may have looked for it
\* before, too, and then fails to create it: 500.
SyncFails(t) ==
  LET d == tab[t].doing IN
  /\ \E what \in {"found", "join"} : Asked(t, what)
  /\ ~ d.knew /\ d.who \in users
  /\ Becomes(t, [tab[t] EXCEPT !.doing = Nothing])
  /\ UNCHANGED <<apiVars, session, cookie, posts, moves, faults, histVars>>

CreateForUser(t, org) ==
  /\ Asked(t, "found")
  /\ org \in New /\ \A a \in Accounts : org \notin Range(members[a])
  /\ Join(tab[t].doing.who, org)
  /\ Proceed(t, org)
  /\ UNCHANGED <<invited, session, cookie, moves, shown>>

Accept(t, org) ==
  LET who == tab[t].doing.who IN
  /\ Asked(t, "join")
  /\ tab[t].account = who /\ org \in invited[who]
  /\ invited' = [invited EXCEPT ![who] = @ \ {org}]
  /\ Join(who, org)
  /\ Proceed(t, org)
  /\ UNCHANGED <<session, cookie, moves, shown>>

\* 403 or 409: somebody else's invitation, or one that has been accepted.
RefuseInvitation(t) ==
  LET who == tab[t].doing.who IN
  /\ Asked(t, "join")
  /\ tab[t].account # who \/ invited[who] = {}
  /\ users' = users \cup {who}
  /\ Becomes(t, [tab[t] EXCEPT !.doing = Nothing])
  /\ UNCHANGED <<members, invited, session, cookie, posts, moves, faults, histVars>>

-----------------------------------------------------------------------------
(* POST /api/active-organization.                                            *)

\* What the API may answer the route, which asks it about the workspace: that
\* request may fail to create the User row, too.
MayAnswer(p) ==
  {IF p.who # None /\ p.org \in Range(members[p.who]) THEN "ok" ELSE "refused"}
    \cup (IF ~ p.knew /\ p.who \in users THEN {"refused"} ELSE {})

\* It asks for the session that came with the request.
Validate(p) ==
  /\ p.at = "sent"
  /\ users' = users \cup ({p.who} \ {None})
  /\ \E at \in MayAnswer(p) : posts' = (posts \ {p}) \cup {[p EXCEPT !.at = at]}
  /\ UNCHANGED <<members, invited, session, cookie, tab, moves, faults, histVars>>

\* Mutant: what surrounds the workspace is not refreshed.
ContinueAsShown(p, ok) ==
  LET r == [tab[p.tab] EXCEPT !.doing = Nothing] IN
  IF p.why = "sync" \/ tab[p.tab].doing = Nothing THEN UNCHANGED tab
  ELSE Becomes(p.tab, IF ok THEN Going(r, session, p.org, IF r.page = "invite" THEN "load" ELSE "push",
                                       FALSE, p.who)
                      ELSE r)

\* What the tab does with the answer: the switcher, the dialog and the
\* invitation go to the workspace, the last two refreshing what is around it.
Continue(p, ok) ==
  LET r == [tab[p.tab] EXCEPT !.doing = Nothing] IN
  IF p.why = "sync" \/ tab[p.tab].doing = Nothing THEN UNCHANGED tab
  ELSE Becomes(p.tab, IF ok THEN Going(r, session, p.org, IF r.page = "invite" THEN "load" ELSE "push",
                                       p.why # "select", p.who)
                      ELSE r)

\* Answers arrive in any order, and the cookie is that of the last one.
Store(p) ==
  /\ p.at # "sent"
  /\ cookie' = IF p.at = "ok" THEN p.org ELSE cookie
  /\ posts' = posts \ {p}
  /\ Continue(p, p.at = "ok")
  /\ flawed' = (flawed \/ p.at = "refused" \/ \E q \in posts : q.nr < p.nr)
  /\ UNCHANGED <<apiVars, session, moves, faults, shown>>

LosePost(p) ==
  /\ Fault
  /\ posts' = posts \ {p}
  /\ Continue(p, FALSE)
  /\ flawed' = TRUE
  /\ UNCHANGED <<apiVars, session, cookie, moves, shown>>

-----------------------------------------------------------------------------

TabStep(t) ==
  \/ \E c \in {"me", "organizations"} : FindUser(t, c) \/ CreateUser(t, c)
  \/ RenderFails(t) \/ Land(t) \/ NotFound(t) \/ Arrive(t)
  \/ \E o \in Workspace : CreateForUser(t, o) \/ Accept(t, o)
  \/ SyncFails(t) \/ RefuseInvitation(t)

UserStep(t) ==
  \/ \E to \in Workspace \cup {Home} : Visit(t, to)
  \/ \E a \in Accounts : OpenInvitation(t, a) \/ SignIn(t, a)
  \/ SignOut(t) \/ Back(t)
  \/ \E o \in Workspace : SelectOrganization(t, o)
  \/ SubmitDialog(t) \/ PressAccept(t)

Next ==
  \/ \E t \in Tabs : TabStep(t) \/ UserStep(t)
  \/ \E p \in posts : Validate(p) \/ Store(p) \/ LosePost(p)

Spec == Init /\ [][Next]_vars

-----------------------------------------------------------------------------
(* Properties.                                                               *)

Settled(t) == tab[t].going = Idle /\ tab[t].doing = Nothing

\* Whoever is sent to a workspace, by /app, the switcher, the dialog or an
\* invitation, finds it there, whatever other tabs, other accounts and the
\* cookie they left have been: a workspace is missing only for another account
\* than it was chosen for, or if one asked for it by its address.
NobodyIsSentAstray ==
  \A t \in Tabs :
    tab[t].page = "missing" /\ tab[t].sentFor # None => tab[t].account # tab[t].sentFor

\* Once nothing is under way, the workspace that is remembered is the one that
\* some tab came to last, unless a request to store it was lost, refused,
\* aborted or overtaken by one sent later.
RememberedIsShown ==
  ~ flawed /\ posts = {} /\ (\A t \in Tabs : Settled(t)) => cookie = shown

\* A switcher lists the workspace that its tab shows, also one that was founded
\* or joined just now, unless the refresh after that was given up, or another
\* account has signed in since the list was loaded.
ShownIsListed ==
  \A t \in Tabs :
    tab[t].page = "workspace" /\ Settled(t) /\ ~ tab[t].listedLate /\ ~ tab[t].mixed =>
      tab[t].org \in tab[t].listed

\* A visit fails for two requests that create one User row only if the account
\* had none when it began, and leaves it with one, so that the next succeeds.
FailedVisitsCanBeRepeated ==
  \A t \in Tabs : tab[t].page = "error" => ~ tab[t].knew /\ tab[t].account \in users

===============================================================================
