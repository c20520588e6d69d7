---------------------------- MODULE WorkspacesProofs ----------------------------
(***************************************************************************)
(* Proofs about Workspaces: what its tabs show belongs to the account they *)
(* were loaded for, and as long as nothing was lost, refused or overtaken, *)
(* the stored preference follows what is shown.                            *)
(***************************************************************************)

EXTENDS Workspaces, WellFoundedInduction, TLAPS

-----------------------------------------------------------------------------
(* The inductive invariant: of a tab, of what it waits for, of the requests  *)
(* to store the preference, and of the last of these.                        *)

CallStates == {"sent", "no row", "done", "failed"}

Nav == [to : Workspace \cup {Home}, kind : {"load", "refresh", "push"}, who : Accounts, saw : Seq(Workspace),
        sentFor : Accounts \cup {None}, knew : BOOLEAN, refresh : BOOLEAN,
        calls : [{"me", "organizations"} -> CallStates] \cup [{"organizations"} -> CallStates]]

Doings == {Nothing} \cup [what : {"select", "found", "join"}]
            \cup [what : {"found", "join"}, who : Accounts, knew : BOOLEAN]

Tab == [page : {"blank", "invite", "workspace", "empty", "missing", "error"},
        org : Workspace \cup {None}, back : Workspace \cup {None}, listed : SUBSET Workspace,
        listedLate : BOOLEAN, mixed : BOOLEAN, account : Accounts \cup {None},
        sentFor : Accounts \cup {None}, knew : BOOLEAN, doing : Doings, going : {Idle} \cup Nav]

PostType == [nr : Nat, tab : Tabs, org : Workspace, why : {"sync", "select", "found", "join"},
             who : Accounts \cup {None}, knew : BOOLEAN, at : {"sent", "ok", "refused"}]

\* Where a tab may go without asking.
Reach(r) == r.listed \cup ({r.org, r.back} \ {None})

Has(a, o) == o \in Range(members[a])

\* What a navigation g has asked and been told.
Reads(g) ==
  /\ g.knew => g.who \in users
  /\ \A c \in DOMAIN g.calls :
       /\ g.calls[c] \in {"no row", "failed"} => ~ g.knew
       /\ g.calls[c] \in {"failed", "done"} => g.who \in users
  /\ \A o \in Range(g.saw) : Has(g.who, o)
  /\ g.sentFor # None /\ g.to # Home =>
       /\ Has(g.sentFor, g.to)
       /\ g.sentFor = g.who /\ g.calls["organizations"] = "done" => g.to \in Range(g.saw)

\* A navigation that is going to arrive.
Sure(g) ==
  /\ g # Idle /\ g.kind # "refresh" /\ g.to # Home
  /\ g.who \in users /\ Has(g.who, g.to)
  /\ \A c \in DOMAIN g.calls : g.calls[c] \in {"sent", "done"}
  /\ g.calls["organizations"] = "done" => g.to \in Range(g.saw)

\* What it has to do with the tab r.
Fits(r, g) ==
  /\ g.kind = "load" <=> r.page \in {"blank", "invite"}
  /\ g.to = Home => g.kind = "load"
  /\ g.kind = "refresh" => g.to = r.org /\ r.page = "workspace"
  /\ g.kind # "load" /\ g.who = r.account => g.knew
  /\ ~ r.mixed /\ g.who = r.account /\ g.calls["organizations"] = "done" => Reach(r) \subseteq Range(g.saw)
  /\ ~ r.mixed /\ ~ r.listedLate /\ g.kind = "push" /\ ~ g.refresh => g.to \in r.listed

\* What a tab shows.
Shows(r) ==
  /\ r.page \in {"blank", "invite"} => Reach(r) = {}
  /\ r.page = "blank" => r.doing = Nothing
  /\ r.page # "workspace" => r.org = None
  /\ r.page \notin {"blank", "invite"} => r.account \in users
  /\ r.page = "error" => ~ r.knew
  /\ r.page = "missing" /\ r.sentFor # None => r.account # r.sentFor
  /\ ~ r.mixed => \A o \in Reach(r) : Has(r.account, o)
  /\ ~ r.mixed /\ ~ r.listedLate => r.back \in r.listed \cup {None}

\* Its switcher lists it, or is going to.
Lists(r) ==
  r.page = "workspace" /\ ~ r.mixed /\ ~ r.listedLate =>
    r.org \in r.listed \/ (r.going # Idle /\ r.going.kind = "refresh")

TabOK(r) == r \in Tab /\ Shows(r) /\ Lists(r) /\ (r.going # Idle => Reads(r.going) /\ Fits(r, r.going))

\* A request p, and the tab r that waits for it.
PostOK(p, r) ==
  /\ p.at = "ok" => p.who \in users /\ Has(p.who, p.org)
  /\ p.why # "sync" => r = Blank \/ r.doing = [what |-> p.why]
  /\ p.why = "select" /\ r # Blank => r.page \notin {"blank", "invite"} /\ (~ r.mixed => p.org \in r.listed)

Waiting(p, q) == p.tab = q.tab /\ p.why # "sync" /\ q.why # "sync" => p = q

Stores ==
  /\ users \subseteq Accounts
  /\ members \in [Accounts -> Seq(Workspace)]
  /\ invited \in [Accounts -> SUBSET Workspace]
  /\ session \in Accounts \cup {None}

Requested ==
  /\ posts \subseteq PostType
  /\ \E n \in Nat : \A p \in posts : p.nr <= n
  /\ \A p \in posts : PostOK(p, tab[p.tab])
  /\ \A p, q \in posts : Waiting(p, q)

WorkspacesInv ==
  /\ Stores
  /\ tab \in [Tabs -> Tab]
  /\ \A t \in Tabs : TabOK(tab[t])
  /\ Requested

-----------------------------------------------------------------------------
(* Numbers.                                                                  *)

Below == {p \in Nat \X Nat : p[1] < p[2]}
LEMMA NatWF == IsWellFoundedOn(Below, Nat)
  BY NatLessThanWellFounded DEF OpToRel, Below

LEMMA LeastNumber ==
  ASSUME NEW S \in SUBSET Nat, S # {}
  PROVE  \E m \in S : \A x \in S : m <= x
<1>1. PICK m \in S : \A y \in S : ~ (<<y, m>> \in Below)
  BY NatWF, WFMin
<1>2. \A x \in S : x \in Nat /\ m \in Nat
  OBVIOUS
<1>3. ASSUME NEW x \in S PROVE m <= x
  <2>1. x < m => <<x, m>> \in Below
    BY <1>2 DEF Below
  <2> QED
    BY <1>1, <1>2, <2>1
<1> QED
  BY <1>3

\* A set of numbers with a bound has a greatest one.
LEMMA GreatestNumber ==
  ASSUME NEW S \in SUBSET Nat, S # {}, NEW n \in Nat, \A x \in S : x <= n
  PROVE  Max(S) \in S /\ \A x \in S : x <= Max(S)
<1> DEFINE B == {b \in Nat : \A x \in S : x <= b}
<1>1. n \in B
  OBVIOUS
<1>2. PICK m \in B : \A b \in B : m <= b
  BY <1>1, LeastNumber
<1>3. m \in S
  <2>1. CASE m = 0
    <3>1. PICK x \in S : TRUE
      OBVIOUS
    <3>2. x \in Nat /\ x <= 0
      BY <2>1, <3>1
    <3>3. x = m
      BY <2>1, <3>2
    <3> QED
      BY <3>3
  <2>2. CASE m # 0
    <3>1. m - 1 \in Nat /\ ~ (m <= m - 1)
      BY <2>2
    <3>2. m - 1 \notin B
      BY <1>2, <3>1
    <3>3. PICK x \in S : ~ (x <= m - 1)
      BY <3>1, <3>2
    <3>4. x \in Nat /\ x <= m
      BY <3>3
    <3>5. x = m
      BY <3>1, <3>3, <3>4
    <3> QED
      BY <3>5
  <2> QED
    BY <2>1, <2>2
<1>4. \A x \in S : m >= x
  OBVIOUS
<1>5. \E x \in S : \A y \in S : x >= y
  BY <1>3, <1>4
<1>6. Max(S) \in S /\ \A y \in S : Max(S) >= y
  BY <1>5 DEF Max
<1> QED
  BY <1>6
-----------------------------------------------------------------------------
(* Sequences.                                                                *)

LEMMA RangeSeq ==
  ASSUME NEW S, NEW s \in Seq(S)
  PROVE  Range(s) \subseteq S /\ (s # <<>> => Head(s) \in Range(s))
<1>1. \A i \in DOMAIN s : s[i] \in S
  OBVIOUS
<1>2. ASSUME s # <<>> PROVE Head(s) \in Range(s)
  <2>1. 1 \in DOMAIN s /\ Head(s) = s[1]
    BY <1>2
  <2> QED
    BY <2>1 DEF Range
<1> QED
  BY <1>1, <1>2 DEF Range

LEMMA RangeEmpty == Range(<<>>) = {}
  BY DEF Range

LEMMA RangeAppend ==
  ASSUME NEW S, NEW s \in Seq(S), NEW e \in S
  PROVE  Append(s, e) \in Seq(S) /\ \A x \in Range(s) \cup {e} : x \in Range(Append(s, e))
<1> DEFINE u == Append(s, e)
<1>1. u \in Seq(S) /\ DOMAIN s = 1 .. Len(s) /\ DOMAIN u = 1 .. Len(s) + 1 /\ Len(s) \in Nat
  OBVIOUS
<1>2. \A i \in 1 .. Len(s) : u[i] = s[i]
  OBVIOUS
<1>3. u[Len(s) + 1] = e
  OBVIOUS
<1> HIDE DEF u
<1>4. \A i \in 1 .. Len(s) : i \in DOMAIN u
  BY <1>1
<1>5. Len(s) + 1 \in DOMAIN u
  BY <1>1
<1>6. e \in Range(u)
  BY <1>3, <1>5 DEF Range
<1>7. \A x \in Range(s) : x \in Range(u)
  BY <1>1, <1>2, <1>4 DEF Range
<1>8. u \in Seq(S)
  BY <1>1
<1> QED
  BY <1>6, <1>7, <1>8 DEF u

-----------------------------------------------------------------------------
(* Accounts and memberships are added, never taken away.                     *)

Grown == users \subseteq users' /\ \A a \in Accounts : Range(members[a]) \subseteq Range(members'[a])

LEMMA TabGrown == ASSUME Stores, Grown, NEW r, TabOK(r) PROVE TabOK(r)'
<1>1. r \in Tab /\ Shows(r) /\ Lists(r) /\ (r.going # Idle => Reads(r.going) /\ Fits(r, r.going))
  BY DEF TabOK
<1>2. r.page \notin {"blank", "invite"} => r.account \in Accounts
  BY <1>1 DEF Shows, Stores
<1>3. Shows(r)'
  BY <1>1, <1>2 DEF Shows, Has, Grown
<1>5. Lists(r)'
  BY <1>1 DEF Lists
<1>4. ASSUME r.going # Idle PROVE Reads(r.going)' /\ Fits(r, r.going)'
  <2>1. r.going \in Nav
    BY <1>1, <1>4 DEF Tab
  <2>2. r.going.who \in Accounts /\ (r.going.sentFor # None => r.going.sentFor \in Accounts)
    BY <2>1 DEF Nav
  <2>3. Reads(r.going)'
    BY <1>1, <1>4, <2>2 DEF Reads, Has, Grown
  <2>4. Fits(r, r.going)'
    BY <1>1, <1>4 DEF Fits, Reach
  <2> QED
    BY <2>3, <2>4
<1> QED
  BY <1>1, <1>3, <1>4, <1>5 DEF TabOK

\* One tab changes.
LEMMA OneTab ==
  ASSUME WorkspacesInv, Grown, NEW t \in Tabs, NEW r, Becomes(t, r), TabOK(r)'
  PROVE  tab' \in [Tabs -> Tab] /\ \A u \in Tabs : TabOK(tab[u])'
<1>1. r \in Tab
  BY DEF TabOK
<1>2. tab' \in [Tabs -> Tab]
  BY <1>1 DEF Becomes, WorkspacesInv
<1>3. ASSUME NEW u \in Tabs PROVE TabOK(tab[u])'
  <2>1. CASE u = t
    <3>1. tab'[u] = r
      BY <2>1 DEF Becomes, WorkspacesInv
    <3> QED
      BY <3>1
  <2>2. CASE u # t
    <3>1. tab'[u] = tab[u] /\ TabOK(tab[u])
      BY <2>2 DEF Becomes, WorkspacesInv
    <3>2. PICK x : x = tab[u]
      OBVIOUS
    <3>3. TabOK(x)'
      BY <3>1, <3>2, TabGrown DEF WorkspacesInv
    <3> QED
      BY <3>1, <3>2, <3>3
  <2> QED
    BY <2>1, <2>2
<1> QED
  BY <1>2, <1>3

-----------------------------------------------------------------------------
(* Navigations.                                                              *)

LEMMA BlankOK == TabOK(Blank)
<1> USE WorkspacesAssumption
<1>1. Blank \in Tab
  BY DEF Blank, Tab, Doings, Nothing, Idle
<1>2. Shows(Blank) /\ Lists(Blank)
  BY DEF Blank, Shows, Lists, Reach, Idle
<1>3. Blank.going = Idle
  BY DEF Blank
<1> QED
  BY <1>1, <1>2, <1>3 DEF TabOK

\* The record of a new navigation.
NewNav(r, who, to, kind, refresh, sentFor) ==
  [to |-> to, kind |-> kind, who |-> who, saw |-> <<>>, sentFor |-> sentFor, knew |-> who \in users,
   calls |-> [c \in Requests(kind) |-> "sent"], refresh |-> refresh \/ (r.going # Idle /\ r.going.refresh)]

LEMMA NavFields ==
  ASSUME NEW g \in Nav
  PROVE  /\ g = [to |-> g.to, kind |-> g.kind, who |-> g.who, saw |-> g.saw, sentFor |-> g.sentFor, knew |-> g.knew,
                 calls |-> g.calls, refresh |-> g.refresh]
         /\ g # Idle
         /\ "organizations" \in DOMAIN g.calls /\ DOMAIN g.calls \subseteq {"me", "organizations"}
         /\ \A c \in DOMAIN g.calls : g.calls[c] \in CallStates
  BY DEF Nav, Idle

LEMMA NewNavType ==
  ASSUME NEW r \in Tab, NEW who \in Accounts, NEW to \in Workspace \cup {Home},
         NEW kind \in {"load", "refresh", "push"}, NEW refresh \in BOOLEAN, NEW sentFor \in Accounts \cup {None}
  PROVE  NewNav(r, who, to, kind, refresh, sentFor) \in Nav
<1> DEFINE k == who \in users
           f == refresh \/ (r.going # Idle /\ r.going.refresh)
           c == [x \in Requests(kind) |-> "sent"]
<1>1. k \in BOOLEAN /\ f \in BOOLEAN
  OBVIOUS
<1>2. c \in [{"me", "organizations"} -> CallStates] \cup [{"organizations"} -> CallStates]
  BY DEF Requests, CallStates
<1>3. <<>> \in Seq(Workspace)
  OBVIOUS
<1> HIDE DEF k, f, c
<1>4. [to |-> to, kind |-> kind, who |-> who, saw |-> <<>>, sentFor |-> sentFor, knew |-> k, calls |-> c, refresh |-> f] \in Nav
  BY <1>1, <1>2, <1>3 DEF Nav
<1> QED
  BY <1>4 DEF NewNav, k, f, c

\* Whether a new navigation makes the list late.
Late(r) == r.listedLate \/ (r.going # Idle /\ r.going.kind = "refresh")

\* What a tab must be for a navigation to fit.
LEMMA GoingOK ==
  ASSUME Stores, NEW r \in Tab, Shows(r), NEW who \in Accounts \cup {None}, NEW to \in Workspace \cup {Home},
         NEW kind \in {"load", "refresh", "push"}, NEW refresh \in BOOLEAN, NEW sentFor \in Accounts \cup {None},
         sentFor # None /\ to # Home => Has(sentFor, to),
         kind = "load" <=> r.page \in {"blank", "invite"},
         to = Home => kind = "load",
         kind = "refresh" => to = r.org /\ r.page = "workspace",
         kind = "refresh" \/ Lists(r),
         kind = "push" => refresh \/ to \in r.listed \/ r.mixed \/ r.listedLate \/ to = r.back
  PROVE  TabOK(Going(r, who, to, kind, refresh, sentFor))
<1>1. CASE who = None
  BY <1>1, BlankOK DEF Going
<1>2. CASE who # None
  <2> DEFINE s == Going(r, who, to, kind, refresh, sentFor)
             g == NewNav(r, who, to, kind, refresh, sentFor)
  <2>1. who \in Accounts /\ g \in Nav
    BY <1>2, NewNavType
  <2>2. Late(r) \in BOOLEAN /\ s = [r EXCEPT !.going = g, !.listedLate = Late(r)]
    <3>1. who # None
      BY <1>2
    <3>2. s = [r EXCEPT !.going = g, !.listedLate = Late(r)]
      BY <3>1 DEF Going, NewNav, Late
    <3> QED
      BY <3>2 DEF Late, Tab
  <2>3. /\ g.to = to /\ g.kind = kind /\ g.who = who /\ g.saw = <<>> /\ g.sentFor = sentFor
        /\ g.knew => who \in users
        /\ who \in users => g.knew
        /\ refresh => g.refresh
        /\ \A c \in DOMAIN g.calls : g.calls[c] = "sent"
        /\ "organizations" \in DOMAIN g.calls
    BY DEF NewNav, Requests
  <2>4. g # Idle
    BY <2>1, NavFields
  <2> HIDE DEF s, g
  <2>5. s \in Tab
    BY <2>1, <2>2 DEF Tab
  <2>6. /\ s.page = r.page /\ s.org = r.org /\ s.back = r.back /\ s.listed = r.listed /\ s.mixed = r.mixed
        /\ s.account = r.account /\ s.sentFor = r.sentFor /\ s.knew = r.knew /\ s.doing = r.doing
        /\ s.going = g /\ s.listedLate = Late(r)
    BY <2>2 DEF Tab
  <2>7. Reach(s) = Reach(r)
    BY <2>6 DEF Reach
  <2>8. Shows(s)
    BY <2>2, <2>6, <2>7 DEF Shows, Late
  <2>9. Lists(s)
    BY <2>2, <2>3, <2>4, <2>6 DEF Lists, Late
  <2>10. Reads(g)
    BY <2>3, RangeEmpty DEF Reads
  <2>11. Fits(s, g)
    <3>1. g.kind # "load" /\ g.who = s.account => g.knew
      BY <2>3, <2>6 DEF Shows
    <3>2. g.calls["organizations"] # "done"
      BY <2>3
    <3>3. ~ s.mixed /\ ~ s.listedLate /\ g.kind = "push" /\ ~ g.refresh => g.to \in s.listed
      <4>1. ~ r.mixed /\ ~ r.listedLate => r.back \in r.listed \cup {None}
        BY DEF Shows
      <4>2. to # None
        BY WorkspacesAssumption
      <4>3. HAVE ~ s.mixed /\ ~ s.listedLate /\ g.kind = "push" /\ ~ g.refresh
      <4>4. ~ r.mixed /\ ~ r.listedLate /\ kind = "push" /\ ~ refresh
        BY <2>3, <2>6, <4>3 DEF Late
      <4>5. to \in r.listed
        BY <4>1, <4>2, <4>4
      <4> QED
        BY <2>3, <2>6, <4>5
    <3> QED
      BY <2>3, <2>6, <3>1, <3>2, <3>3 DEF Fits
  <2>12. TabOK(s)
    BY <2>5, <2>6, <2>8, <2>9, <2>10, <2>11 DEF TabOK
  <2> QED
    BY <2>12 DEF s
<1> QED
  BY <1>1, <1>2

-----------------------------------------------------------------------------
(* What a tab comes to show.                                                 *)

\* Show, of a tab r.
Shown(r, page, org) ==
  [r EXCEPT !.page = page, !.org = org,
            !.back = IF page = "workspace" /\ org # r.org THEN r.org ELSE @,
            !.account = r.going.who, !.sentFor = r.going.sentFor, !.knew = r.going.knew,
            !.listed = IF r.going.kind = "push" THEN @ ELSE Range(r.going.saw),
            !.listedLate = @ /\ r.going.kind = "push",
            !.mixed = r.going.kind # "load" /\ (@ \/ r.going.who # r.account),
            !.going = Idle]

LEMMA ShowIs == ASSUME NEW t, NEW page, NEW org PROVE Show(t, page, org) = Shown(tab[t], page, org)
  BY DEF Show, Shown

\* The pages and the workspaces that a navigation g may come to.
Comes(g, page, org) ==
  /\ page \in {"workspace", "empty", "missing", "error"}
  /\ page = "workspace" => org = g.to /\ org \in Range(g.saw)
  /\ page # "workspace" => org = None
  /\ page = "error" => \E c \in DOMAIN g.calls : g.calls[c] = "failed"
  /\ page # "error" => g.calls["organizations"] = "done"
  /\ page = "missing" => g.to # Home /\ g.to \notin Range(g.saw)

LEMMA ShowFields ==
  ASSUME NEW r \in Tab, NEW g \in Nav, r.going = g, NEW page, NEW org, Comes(g, page, org),
         NEW s, s = Shown(r, page, org)
  PROVE  /\ s \in Tab
         /\ s.page = page /\ s.org = org /\ s.account = g.who /\ s.sentFor = g.sentFor /\ s.knew = g.knew
         /\ s.going = Idle /\ s.doing = r.doing
         /\ s.back \in {r.org, r.back}
         /\ page # "workspace" => s.back = r.back
         /\ s.listed = IF g.kind = "push" THEN r.listed ELSE Range(g.saw)
         /\ s.listedLate <=> r.listedLate /\ g.kind = "push"
         /\ s.mixed <=> g.kind # "load" /\ (r.mixed \/ g.who # r.account)
<1> DEFINE b == IF page = "workspace" /\ org # r.org THEN r.org ELSE r.back
           l == IF g.kind = "push" THEN r.listed ELSE Range(g.saw)
           late == r.listedLate /\ g.kind = "push"
           mixed == g.kind # "load" /\ (r.mixed \/ g.who # r.account)
<1>1. s = [r EXCEPT !.page = page, !.org = org, !.back = b, !.account = g.who, !.sentFor = g.sentFor,
                    !.knew = g.knew, !.listed = l, !.listedLate = late, !.mixed = mixed, !.going = Idle]
  BY DEF Shown
<1>2. g.who \in Accounts /\ g.sentFor \in Accounts \cup {None} /\ g.knew \in BOOLEAN /\ g.saw \in Seq(Workspace)
  BY DEF Nav
<1>3. Range(g.saw) \subseteq Workspace
  BY <1>2, RangeSeq
<1>4. /\ page \in {"blank", "invite", "workspace", "empty", "missing", "error"}
      /\ org \in Workspace \cup {None}
  BY <1>3 DEF Comes
<1>5. r.org \in Workspace \cup {None} /\ r.back \in Workspace \cup {None} /\ r.listed \in SUBSET Workspace
  BY DEF Tab
<1>6. b \in Workspace \cup {None} /\ b \in {r.org, r.back} /\ (page # "workspace" => b = r.back)
  BY <1>5
<1>7. l \in SUBSET Workspace /\ late \in BOOLEAN /\ mixed \in BOOLEAN
  BY <1>3, <1>5
<1>8. late <=> r.listedLate /\ g.kind = "push"
  OBVIOUS
<1>9. mixed <=> g.kind # "load" /\ (r.mixed \/ g.who # r.account)
  OBVIOUS
<1>10. l = IF g.kind = "push" THEN r.listed ELSE Range(g.saw)
  OBVIOUS
<1> HIDE DEF b, l, late, mixed
<1>11. s \in Tab
  BY <1>1, <1>2, <1>4, <1>6, <1>7 DEF Tab
<1>12. /\ s.page = page /\ s.org = org /\ s.account = g.who /\ s.sentFor = g.sentFor /\ s.knew = g.knew
       /\ s.going = Idle /\ s.doing = r.doing /\ s.back = b /\ s.listed = l
  BY <1>1 DEF Tab
<1>13. s.listedLate = late /\ s.mixed = mixed
  BY <1>1 DEF Tab
<1> QED
  BY <1>6, <1>8, <1>9, <1>10, <1>11, <1>12, <1>13

LEMMA ShowOK ==
  ASSUME Stores, NEW r, TabOK(r), r.going # Idle, NEW page, NEW org, Comes(r.going, page, org),
         NEW s, s = Shown(r, page, org)
  PROVE  /\ s \in Tab /\ Shows(s) /\ s.going = Idle /\ s.doing = r.doing
         /\ s.page = page /\ s.org = org
         /\ page # "workspace" \/ r.going.kind # "push" \/ ~ r.going.refresh => TabOK(s)
         /\ ~ s.mixed /\ r.page \notin {"blank", "invite"} => ~ r.mixed /\ r.listed \subseteq s.listed
<1> DEFINE g == r.going
<1>1. r \in Tab /\ Shows(r) /\ Lists(r) /\ Reads(g) /\ Fits(r, g)
  BY DEF TabOK
<1>2. g \in Nav
  BY <1>1 DEF Tab
<1>3. g.kind \in {"load", "refresh", "push"} /\ g.who \in Accounts
  BY <1>2 DEF Nav
<1> HIDE DEF g
<1>4. Comes(g, page, org) /\ r.going = g /\ g # Idle
  BY DEF g
<1>5. /\ s \in Tab
      /\ s.page = page /\ s.org = org /\ s.account = g.who /\ s.sentFor = g.sentFor /\ s.knew = g.knew
      /\ s.going = Idle /\ s.doing = r.doing
      /\ s.back \in {r.org, r.back}
      /\ page # "workspace" => s.back = r.back
      /\ s.listed = IF g.kind = "push" THEN r.listed ELSE Range(g.saw)
      /\ s.listedLate <=> r.listedLate /\ g.kind = "push"
      /\ s.mixed <=> g.kind # "load" /\ (r.mixed \/ g.who # r.account)
  BY <1>1, <1>2, <1>4, ShowFields
<1>6. "organizations" \in DOMAIN g.calls
  BY <1>2, NavFields
<1>7. page = "error" => ~ g.knew /\ g.who \in users
  BY <1>1, <1>4 DEF Comes, Reads
<1>8. page # "error" => g.calls["organizations"] = "done" /\ g.who \in users
  BY <1>1, <1>4, <1>6 DEF Comes, Reads
<1>9. page = "missing" /\ g.sentFor # None => g.who # g.sentFor
  BY <1>1, <1>4, <1>8 DEF Comes, Reads
\* A tab that is not mixed has nothing yet, or has the workspaces it had.
<1>10. g.kind = "load" => Reach(r) = {} /\ r.page \in {"blank", "invite"}
  BY <1>1 DEF Fits, Shows
<1>11. ASSUME ~ s.mixed, g.kind # "load"
       PROVE  /\ ~ r.mixed /\ g.who = r.account /\ page # "error"
              /\ Reach(r) \subseteq Range(g.saw) /\ \A o \in Reach(r) : Has(g.who, o)
  <2>1. ~ r.mixed /\ g.who = r.account
    BY <1>5, <1>11
  <2>2. page # "error"
    BY <1>1, <1>7, <1>11, <2>1 DEF Fits
  <2>3. Reach(r) \subseteq Range(g.saw)
    BY <1>1, <1>8, <2>1, <2>2 DEF Fits
  <2>4. \A o \in Range(g.saw) : Has(g.who, o)
    BY <1>1 DEF Reads
  <2> QED
    BY <2>1, <2>2, <2>3, <2>4
<1>12. s.back \in Reach(r) \cup {None} /\ r.listed \subseteq Reach(r)
  BY <1>5 DEF Reach
<1>13. s.org \in Range(g.saw) \cup {None}
  BY <1>4, <1>5 DEF Comes
<1>14. ASSUME ~ s.mixed PROVE \A o \in Reach(s) : Has(s.account, o)
  <2>1. \A o \in Range(g.saw) : Has(g.who, o)
    BY <1>1 DEF Reads
  <2>2. \A o \in Reach(r) : Has(g.who, o)
    BY <1>10, <1>11, <1>14
  <2>3. s.listed \subseteq Range(g.saw) \cup Reach(r)
    BY <1>5, <1>12
  <2>4. Reach(s) \subseteq Range(g.saw) \cup Reach(r)
    BY <1>12, <1>13, <2>3 DEF Reach
  <2> QED
    BY <1>5, <2>1, <2>2, <2>4
<1>15. ASSUME ~ s.mixed, ~ s.listedLate PROVE s.back \in s.listed \cup {None}
  <2>1. CASE g.kind = "load"
    BY <1>10, <1>12, <2>1
  <2>2. CASE g.kind = "refresh"
    <3>1. s.listed = Range(g.saw)
      BY <1>5, <2>2
    <3> QED
      BY <1>11, <1>12, <1>15, <2>2, <3>1
  <2>3. CASE g.kind = "push"
    <3>1. s.listed = r.listed /\ ~ r.listedLate /\ ~ r.mixed
      BY <1>5, <1>11, <1>15, <2>3
    <3>2. r.back \in r.listed \cup {None}
      BY <1>1, <3>1 DEF Shows
    <3>3. r.page # "workspace" => r.org = None
      BY <1>1 DEF Shows
    <3>4. r.page = "workspace" => r.org \in r.listed
      BY <1>1, <1>4, <2>3, <3>1 DEF Lists
    <3> QED
      BY <1>5, <3>1, <3>2, <3>3, <3>4
  <2> QED
    BY <1>3, <2>1, <2>2, <2>3
<1>16. s.page \notin {"blank", "invite"} /\ s.account \in users /\ (s.page # "workspace" => s.org = None)
  BY <1>4, <1>5, <1>7, <1>8 DEF Comes
<1>17. s.page = "error" => ~ s.knew
  BY <1>5, <1>7
<1>18. s.page = "missing" /\ s.sentFor # None => s.account # s.sentFor
  BY <1>5, <1>9
<1>19. Shows(s)
  BY <1>14, <1>15, <1>16, <1>17, <1>18 DEF Shows
<1>20. ASSUME page # "workspace" \/ g.kind # "push" \/ ~ g.refresh PROVE Lists(s)
  <2> SUFFICES ASSUME page = "workspace", ~ s.mixed, ~ s.listedLate PROVE s.org \in s.listed
    BY <1>5 DEF Lists
  <2>1. s.org = g.to /\ s.org \in Range(g.saw)
    BY <1>4, <1>5 DEF Comes
  <2>2. CASE g.kind # "push"
    BY <1>5, <2>1, <2>2
  <2>3. CASE g.kind = "push"
    <3>1. s.listed = r.listed /\ ~ r.listedLate /\ ~ r.mixed
      BY <1>5, <1>11, <2>3
    <3>2. g.to \in r.listed
      BY <1>1, <1>20, <2>3, <3>1 DEF Fits
    <3> QED
      BY <2>1, <3>1, <3>2
  <2> QED
    BY <2>2, <2>3
<1>21. page # "workspace" \/ g.kind # "push" \/ ~ g.refresh => TabOK(s)
  BY <1>5, <1>19, <1>20 DEF TabOK
<1>22. ~ s.mixed /\ r.page \notin {"blank", "invite"} => ~ r.mixed /\ r.listed \subseteq s.listed
  BY <1>5, <1>10, <1>11, <1>12
<1> QED
  BY <1>5, <1>19, <1>21, <1>22 DEF g
-----------------------------------------------------------------------------
(* Answers.                                                                  *)

\* The navigation g when the call c has come to x.
Answer(g, c, x, w) == [g EXCEPT !.calls = [g.calls EXCEPT ![c] = x], !.saw = w]

LEMMA CallFields ==
  ASSUME NEW g \in Nav, NEW c \in DOMAIN g.calls, NEW x \in CallStates, NEW w \in Seq(Workspace),
         NEW h, h = Answer(g, c, x, w)
  PROVE  /\ h \in Nav /\ h # Idle
         /\ h.to = g.to /\ h.kind = g.kind /\ h.who = g.who /\ h.sentFor = g.sentFor /\ h.knew = g.knew
         /\ h.refresh = g.refresh /\ h.saw = w
         /\ DOMAIN h.calls = DOMAIN g.calls /\ h.calls[c] = x
         /\ \A d \in DOMAIN g.calls \ {c} : h.calls[d] = g.calls[d]
<1> DEFINE k == [g.calls EXCEPT ![c] = x]
<1>1. h = [g EXCEPT !.calls = k, !.saw = w]
  BY DEF Answer
<1>2. /\ k \in [{"me", "organizations"} -> CallStates] \cup [{"organizations"} -> CallStates]
      /\ DOMAIN k = DOMAIN g.calls /\ k[c] = x /\ \A d \in DOMAIN g.calls \ {c} : k[d] = g.calls[d]
  <2>1. g.calls \in [{"me", "organizations"} -> CallStates] \cup [{"organizations"} -> CallStates]
    BY DEF Nav
  <2> QED
    BY <2>1
<1> HIDE DEF k
<1>3. h \in Nav
  BY <1>1, <1>2 DEF Nav
<1>4. /\ h.to = g.to /\ h.kind = g.kind /\ h.who = g.who /\ h.sentFor = g.sentFor /\ h.knew = g.knew
      /\ h.refresh = g.refresh /\ h.saw = w /\ h.calls = k
  BY <1>1 DEF Nav
<1> QED
  BY <1>2, <1>3, <1>4, NavFields

\* The tab r, with a call of its navigation answered.
Told(r, c, x, w) == [r EXCEPT !.going = Answer(r.going, c, x, w)]

\* What the answer x of the call c, and the list w, may be.
Answers(g, c, x, w) ==
  /\ c \in DOMAIN g.calls /\ x \in CallStates /\ w \in Seq(Workspace)
  /\ x = "done" => g.calls[c] \in {"sent", "no row"} /\ g.who \in users
  /\ x \in {"no row", "failed"} => ~ g.knew
  /\ x = "failed" => g.who \in users
  /\ IF x = "done" /\ c = "organizations" THEN w = members[g.who] ELSE w = g.saw

LEMMA AnswerOK ==
  ASSUME Stores', NEW r, TabOK(r)', r.going # Idle, NEW c, NEW x, NEW w, Answers(r.going, c, x, w)'
  PROVE  TabOK(Told(r, c, x, w))'
<1> DEFINE g == r.going
           h == Answer(g, c, x, w)
           s == [r EXCEPT !.going = h]
<1>1. r \in Tab /\ Shows(r)' /\ Lists(r)' /\ Reads(g)' /\ Fits(r, g)'
  BY DEF TabOK
<1>2. g \in Nav
  BY <1>1 DEF Tab
<1>3. g.who \in Accounts /\ (g.sentFor # None => g.sentFor \in Accounts)
  BY <1>2 DEF Nav
<1> HIDE DEF g
<1>4. Answers(g, c, x, w)' /\ r.going = g /\ g # Idle
  BY DEF g
<1>5. c \in DOMAIN g.calls /\ x \in CallStates /\ w \in Seq(Workspace)
  BY <1>4 DEF Answers
<1>6. /\ h \in Nav /\ h # Idle
      /\ h.to = g.to /\ h.kind = g.kind /\ h.who = g.who /\ h.sentFor = g.sentFor /\ h.knew = g.knew
      /\ h.refresh = g.refresh /\ h.saw = w
      /\ DOMAIN h.calls = DOMAIN g.calls /\ h.calls[c] = x
      /\ \A d \in DOMAIN g.calls \ {c} : h.calls[d] = g.calls[d]
  BY <1>2, <1>5, CallFields
<1> HIDE DEF h
<1>7. s \in Tab
  BY <1>1, <1>6 DEF Tab
<1>8. /\ s.page = r.page /\ s.org = r.org /\ s.back = r.back /\ s.listed = r.listed /\ s.mixed = r.mixed
      /\ s.account = r.account /\ s.sentFor = r.sentFor /\ s.knew = r.knew /\ s.doing = r.doing
      /\ s.going = h /\ s.listedLate = r.listedLate
  BY <1>1 DEF Tab
<1> HIDE DEF s
<1>9. Reach(s) = Reach(r)
  BY <1>8 DEF Reach
<1>10. Shows(s)'
  BY <1>1, <1>8, <1>9 DEF Shows
<1>11. Lists(s)'
  BY <1>1, <1>4, <1>6, <1>8 DEF Lists
\* The list is that of the account.
<1>12. h.calls["organizations"] = "done" =>
         (\A o \in Workspace : Has(g.who, o)' => o \in Range(w)) \/ (g.calls["organizations"] = "done" /\ w = g.saw)
  <2>1. CASE c = "organizations" /\ x = "done"
    BY <1>4, <2>1 DEF Answers, Has
  <2>2. CASE ~ (c = "organizations" /\ x = "done")
    <3>1. w = g.saw
      BY <1>4, <2>2 DEF Answers
    <3>2. "organizations" \in DOMAIN g.calls
      BY <1>2, NavFields
    <3> QED
      BY <1>6, <2>2, <3>1, <3>2
  <2> QED
    BY <2>1, <2>2
<1>13. \A o \in Range(w) : Has(g.who, o)'
  <2>1. CASE w = g.saw
    BY <1>1, <2>1 DEF Reads
  <2>2. CASE w = members'[g.who]
    BY <2>2 DEF Has
  <2> QED
    BY <1>4, <2>1, <2>2 DEF Answers
<1>14. g.to # Home => g.to \in Workspace
  BY <1>2 DEF Nav
<1>15. Reads(h)'
  <2>1. h.knew => h.who \in users'
    BY <1>1, <1>6 DEF Reads
  <2>2. ASSUME NEW d \in DOMAIN h.calls
        PROVE  /\ h.calls[d] \in {"no row", "failed"} => ~ h.knew
               /\ h.calls[d] \in {"failed", "done"} => h.who \in users'
    <3>1. CASE d = c
      BY <1>4, <1>6, <3>1 DEF Answers
    <3>2. CASE d # c
      BY <1>1, <1>6, <2>2, <3>2 DEF Reads
    <3> QED
      BY <3>1, <3>2
  <2>3. ASSUME h.sentFor # None, h.to # Home
        PROVE  /\ Has(h.sentFor, h.to)'
               /\ h.sentFor = h.who /\ h.calls["organizations"] = "done" => h.to \in Range(h.saw)
    <3>1. /\ Has(g.sentFor, g.to)'
          /\ g.sentFor = g.who /\ g.calls["organizations"] = "done" => g.to \in Range(g.saw)
      BY <1>1, <1>6, <2>3 DEF Reads
    <3> QED
      BY <1>6, <1>12, <1>14, <2>3, <3>1
  <2>4. \A o \in Range(h.saw) : Has(h.who, o)'
    BY <1>6, <1>13
  <2> QED
    BY <2>1, <2>2, <2>3, <2>4 DEF Reads
<1>16. Fits(s, h)'
  <2>1. ASSUME ~ r.mixed, g.who = r.account, h.calls["organizations"] = "done" PROVE Reach(r) \subseteq Range(w)
    <3>1. \A o \in Reach(r) : Has(g.who, o)' /\ o \in Workspace
      BY <1>1, <2>1 DEF Shows, Reach, Tab
    <3>2. g.calls["organizations"] = "done" => Reach(r) \subseteq Range(g.saw)
      BY <1>1, <2>1 DEF Fits
    <3> QED
      BY <1>12, <2>1, <3>1, <3>2
  <2> QED
    BY <1>1, <1>6, <1>8, <1>9, <2>1 DEF Fits
<1>17. TabOK(s)'
  BY <1>7, <1>8, <1>10, <1>11, <1>15, <1>16 DEF TabOK
<1>18. Told(r, c, x, w) = s
  BY DEF Told, s, h, g
<1> QED
  BY <1>17, <1>18
-----------------------------------------------------------------------------
(* Requests to store the preference.                                         *)

LEMMA NumberOK ==
  ASSUME Requested
  PROVE  Number \in Nat /\ \A p \in posts : p.nr < Number
<1> DEFINE S == {0} \cup {p.nr : p \in posts}
<1>1. \A p \in posts : p.nr \in Nat
  BY DEF Requested, PostType
<1>2. PICK n \in Nat : \A p \in posts : p.nr <= n
  BY DEF Requested
<1>3. S \in SUBSET Nat /\ S # {} /\ \A x \in S : x <= n
  BY <1>1, <1>2
<1>4. \A p \in posts : p.nr \in S
  OBVIOUS
<1> HIDE DEF S
<1>5. Max(S) \in S /\ \A x \in S : x <= Max(S)
  BY <1>3, GreatestNumber
<1>6. Max(S) \in Nat /\ Number = Max(S) + 1
  BY <1>3, <1>5 DEF Number, S
<1>7. ASSUME NEW p \in posts PROVE p.nr < Number
  <2>1. p.nr \in Nat /\ p.nr <= Max(S)
    BY <1>1, <1>4, <1>5
  <2> QED
    BY <1>6, <2>1
<1> QED
  BY <1>6, <1>7

\* The tab still waits for what it waited for.
Keeps(r, s) ==
  \/ s = Blank
  \/ /\ r # Blank /\ s.doing = r.doing
     /\ r.page \notin {"blank", "invite"} =>
          s.page \notin {"blank", "invite"} /\ (~ s.mixed => ~ r.mixed /\ r.listed \subseteq s.listed)

LEMMA PostKept ==
  ASSUME Stores, Grown, NEW p \in PostType, NEW r, NEW s, PostOK(p, r), Keeps(r, s) \/ p.why = "sync"
  PROVE  PostOK(p, s)'
<1>1. p.at = "ok" => p.who \in users' /\ Has(p.who, p.org)'
  BY DEF PostOK, Grown, Has, Stores
<1>2. CASE p.why = "sync"
  BY <1>1, <1>2 DEF PostOK
<1>3. CASE Keeps(r, s)
  <2>1. CASE s = Blank
    BY <1>1, <2>1 DEF PostOK
  <2>2. CASE s # Blank
    BY <1>1, <1>3, <2>2 DEF PostOK, Keeps
  <2> QED
    BY <2>1, <2>2
<1> QED
  BY <1>2, <1>3

LEMMA RequestsOK ==
  ASSUME Stores, Requested, Grown, NEW P \in SUBSET posts, NEW N \in SUBSET PostType, posts' = P \cup N,
         \A p, q \in N : p = q,
         \A p \in P : Keeps(tab[p.tab], tab'[p.tab]) \/ p.why = "sync",
         \A p \in N : /\ PostOK(p, tab[p.tab])'
                      /\ p.why # "sync" => \A q \in P : q.tab = p.tab => q.why = "sync"
  PROVE  Requested'
<1>1. posts' \subseteq PostType
  BY DEF Requested
<1>2. \E n \in Nat : \A p \in posts' : p.nr <= n
  <2>1. PICK n \in Nat : \A p \in posts : p.nr <= n
    BY DEF Requested
  <2>2. CASE N = {}
    BY <2>1, <2>2
  <2>3. CASE N # {}
    <3>1. PICK p \in N : TRUE
      BY <2>3
    <3>2. N = {p}
      BY <3>1
    <3>3. p.nr \in Nat /\ \A q \in P : q.nr \in Nat
      BY <3>1 DEF PostType, Requested
    <3>4. n + p.nr \in Nat
      BY <3>3
    <3>5. ASSUME NEW q \in posts' PROVE q.nr <= n + p.nr
      <4>1. CASE q \in P
        <5>1. q.nr <= n /\ q.nr \in Nat
          BY <2>1, <3>3, <4>1
        <5> QED
          BY <3>3, <5>1
      <4>2. CASE q = p
        BY <3>3, <4>2
      <4> QED
        BY <3>2, <4>1, <4>2
    <3> QED
      BY <3>4, <3>5
  <2> QED
    BY <2>2, <2>3
<1>3. ASSUME NEW p \in posts' PROVE PostOK(p, tab[p.tab])'
  <2>1. CASE p \in P
    <3>1. PICK r, s : r = tab[p.tab] /\ s = tab'[p.tab]
      OBVIOUS
    <3>2. p \in PostType /\ PostOK(p, r) /\ (Keeps(r, s) \/ p.why = "sync")
      BY <2>1, <3>1 DEF Requested
    <3>3. PostOK(p, s)'
      BY <3>2, PostKept
    <3> QED
      BY <3>1, <3>3
  <2>2. CASE p \in N
    BY <2>2
  <2> QED
    BY <2>1, <2>2
<1>4. ASSUME NEW p \in posts', NEW q \in posts' PROVE Waiting(p, q)
  BY <1>4 DEF Requested, Waiting
<1> QED
  BY <1>1, <1>2, <1>3, <1>4 DEF Requested

LEMMA Unchanged == ASSUME NEW r PROVE Keeps(r, r)
  BY DEF Keeps

\* One tab changes, and requests end.
LEMMA RequestsEnd ==
  ASSUME WorkspacesInv, Grown, NEW t \in Tabs, NEW s, Becomes(t, s), posts' \subseteq posts,
         \A p \in posts' : p.tab = t => Keeps(tab[t], s) \/ p.why = "sync"
  PROVE  Requested'
<1>1. Stores /\ Requested /\ tab \in [Tabs -> Tab] /\ posts \subseteq PostType
  BY DEF WorkspacesInv, Requested
<1>2. ASSUME NEW p \in posts' PROVE Keeps(tab[p.tab], tab'[p.tab]) \/ p.why = "sync"
  <2>1. p.tab \in Tabs
    BY <1>1 DEF PostType
  <2>2. CASE p.tab = t
    BY <1>1, <2>2 DEF Becomes
  <2>3. CASE p.tab # t
    <3>1. tab'[p.tab] = tab[p.tab]
      BY <1>1, <2>1, <2>3 DEF Becomes
    <3> QED
      BY <3>1, Unchanged
  <2> QED
    BY <2>2, <2>3
<1>3. posts' = posts' \cup {} /\ {} \in SUBSET PostType
  OBVIOUS
<1> QED
  BY <1>1, <1>2, <1>3, RequestsOK

\* What a tab does that waits for such a request.
WaitsFor(why) == [what |-> why]

\* One tab changes, and sends a request.
LEMMA RequestSent ==
  ASSUME WorkspacesInv, Grown, NEW t \in Tabs, NEW s, Becomes(t, s), NEW org \in Workspace,
         NEW why \in {"sync", "select", "found", "join"}, NEW known, posts' = Post(t, org, why, known),
         \A p \in posts : p.tab = t => p.why = "sync" \/ (why = "sync" /\ Keeps(tab[t], s)),
         why # "sync" => s = Blank \/ s.doing = WaitsFor(why),
         why = "select" /\ s # Blank => s.page \notin {"blank", "invite"} /\ (~ s.mixed => org \in s.listed)
  PROVE  Requested'
<1>1. Stores /\ Requested /\ tab \in [Tabs -> Tab] /\ posts \subseteq PostType
  BY DEF WorkspacesInv, Requested
<1>2. PICK p : p = [nr |-> Number, tab |-> t, org |-> org, why |-> why, who |-> session,
                    knew |-> session \in known, at |-> "sent"]
  OBVIOUS
<1>3. p \in PostType /\ p.tab = t /\ p.why = why /\ p.org = org /\ p.at = "sent"
  BY <1>1, <1>2, NumberOK DEF PostType, Stores
<1>4. tab'[t] = s
  BY <1>1 DEF Becomes
<1>5. PostOK(p, s)'
  <2>1. p.at # "ok"
    BY <1>3
  <2>2. why # "sync" => s = Blank \/ s.doing = [what |-> p.why]
    BY <1>3 DEF WaitsFor
  <2> QED
    BY <1>3, <2>1, <2>2 DEF PostOK
<1>6. ASSUME NEW q \in posts PROVE Keeps(tab[q.tab], tab'[q.tab]) \/ q.why = "sync"
  <2>1. q.tab \in Tabs
    BY <1>1 DEF PostType
  <2>2. CASE q.tab = t
    BY <1>4, <2>2
  <2>3. CASE q.tab # t
    <3>1. tab'[q.tab] = tab[q.tab]
      BY <1>1, <2>1, <2>3 DEF Becomes
    <3> QED
      BY <3>1, Unchanged
  <2> QED
    BY <2>2, <2>3
<1>7. posts' = posts \cup {p}
  BY <1>2 DEF Post
<1>8. PostOK(p, tab[p.tab])' /\ (p.why # "sync" => \A q \in posts : q.tab = p.tab => q.why = "sync")
  BY <1>3, <1>4, <1>5
<1>9. PICK N : N = {p}
  OBVIOUS
<1>10. N \in SUBSET PostType /\ posts \in SUBSET posts /\ posts' = posts \cup N /\ \A x, y \in N : x = y
  BY <1>3, <1>7, <1>9
<1>11. \A x \in N : /\ PostOK(x, tab[x.tab])'
                    /\ x.why # "sync" => \A q \in posts : q.tab = x.tab => q.why = "sync"
  BY <1>8, <1>9
<1> QED
  BY <1>1, <1>6, <1>10, <1>11, RequestsOK

LEMMA RequestAwaited ==
  ASSUME WorkspacesInv, Grown, NEW t \in Tabs, NEW s, Becomes(t, s), NEW org \in Workspace,
         NEW why, why \in {"select", "found", "join"}, NEW known, posts' = Post(t, org, why, known),
         \A p \in posts : p.tab = t => p.why = "sync",
         s.doing = WaitsFor(why),
         why = "select" => s.page \notin {"blank", "invite"} /\ org \in s.listed
  PROVE  Requested'
<1>1. why \in {"sync", "select", "found", "join"} /\ why # "sync"
  OBVIOUS
<1>2. \A p \in posts : p.tab = t => p.why = "sync" \/ (why = "sync" /\ Keeps(tab[t], s))
  OBVIOUS
<1>3. why # "sync" => s = Blank \/ s.doing = WaitsFor(why)
  OBVIOUS
<1>4. why = "select" /\ s # Blank => s.page \notin {"blank", "invite"} /\ (~ s.mixed => org \in s.listed)
  OBVIOUS
<1> QED
  BY <1>1, <1>2, <1>3, <1>4, RequestSent
-----------------------------------------------------------------------------
(* Every step keeps the invariant.                                           *)

LEMMA TabIs == ASSUME WorkspacesInv, NEW t \in Tabs
               PROVE  /\ tab[t] \in Tab /\ TabOK(tab[t]) /\ Shows(tab[t]) /\ Lists(tab[t])
                      /\ tab[t].going # Idle => Reads(tab[t].going) /\ Fits(tab[t], tab[t].going) /\ tab[t].going \in Nav
  BY DEF WorkspacesInv, TabOK, Tab

LEMMA OneTabInv ==
  ASSUME WorkspacesInv, Grown, Stores', NEW t \in Tabs, NEW r, Becomes(t, r), TabOK(r)', Requested'
  PROVE  WorkspacesInv'
  BY OneTab DEF WorkspacesInv

\* Nobody comes or joins.
LEMMA SameUsers ==
  ASSUME WorkspacesInv, UNCHANGED apiVars
  PROVE  /\ Grown /\ Stores /\ (session' \in Accounts \cup {None} => Stores')
         /\ \A r : TabOK(r) => TabOK(r)'
<1>1. Grown /\ Stores /\ (session' \in Accounts \cup {None} => Stores')
  BY DEF WorkspacesInv, apiVars, Grown, Stores
<1>2. ASSUME NEW r, TabOK(r) PROVE TabOK(r)'
  BY <1>1, <1>2, TabGrown
<1> QED
  BY <1>1, <1>2

LEMMA NotBlank ==
  ASSUME WorkspacesInv, NEW t \in Tabs
  PROVE  /\ tab[t].going # Idle => tab[t] # Blank
         /\ tab[t].page # "blank" => tab[t] # Blank
         /\ tab[t].doing # Nothing => tab[t] # Blank /\ tab[t].page # "blank"
<1>1. Blank.going = Idle /\ Blank.page = "blank" /\ Blank.doing = Nothing
  BY DEF Blank
<1> QED
  BY <1>1, TabIs DEF Shows

\* The call c of the tab t has come to x.
Tells(t, c, x, w) ==
  /\ \A g : g = tab[t].going => Answers(g, c, x, w)' /\ (Sure(g) => x = "done")
  /\ Becomes(t, Told(tab[t], c, x, w))

LEMMA ToldOK ==
  ASSUME WorkspacesInv, Grown, Stores', NEW t \in Tabs, NEW c, NEW x, NEW w, tab[t].going # Idle,
         Tells(t, c, x, w), posts' = posts
  PROVE  WorkspacesInv'
<1>1. PICK r, s : r = tab[t] /\ s = Told(r, c, x, w)
  OBVIOUS
<1>2. r \in Tab /\ TabOK(r) /\ r.going # Idle /\ r # Blank
  BY <1>1, TabIs, NotBlank
<1>3. Stores
  BY DEF WorkspacesInv
<1>4. TabOK(r)'
  BY <1>2, <1>3, TabGrown
<1>5. Answers(r.going, c, x, w)'
  BY <1>1 DEF Tells
<1>6. TabOK(s)'
  BY <1>1, <1>2, <1>4, <1>5, AnswerOK
<1>7. Becomes(t, s)
  BY <1>1 DEF Tells
<1>8. s.doing = r.doing /\ s.page = r.page /\ s.mixed = r.mixed /\ s.listed = r.listed
  BY <1>1, <1>2 DEF Told, Tab
<1>9. Keeps(r, s)
  BY <1>2, <1>8 DEF Keeps
<1>10. Requested'
  BY <1>1, <1>7, <1>9, RequestsEnd
<1> QED
  BY <1>6, <1>7, <1>10, OneTabInv

\* The outcomes of a call of the tab r.
Stuck(r, c, x) == [r EXCEPT !.going.calls[c] = x]
Done(r, c, m)  == [r EXCEPT !.going.calls[c] = "done", !.going.saw = IF c = "organizations" THEN m ELSE @]

LEMMA Outcomes ==
  ASSUME NEW r \in Tab, NEW g \in Nav, r.going = g, NEW c \in DOMAIN g.calls
  PROVE  /\ \A x : Stuck(r, c, x) = Told(r, c, x, g.saw)
         /\ \A m : Done(r, c, m) = Told(r, c, "done", IF c = "organizations" THEN m ELSE g.saw)
<1>1. ASSUME NEW x PROVE Stuck(r, c, x) = Told(r, c, x, g.saw)
  <2>1. Answer(g, c, x, g.saw) = [g EXCEPT !.calls[c] = x]
    BY DEF Answer, Nav
  <2> QED
    BY <2>1 DEF Told, Tab, Stuck
<1>2. ASSUME NEW m PROVE Done(r, c, m) = Told(r, c, "done", IF c = "organizations" THEN m ELSE g.saw)
  BY DEF Told, Tab, Answer, Nav, Done
<1> QED
  BY <1>1, <1>2

LEMMA FindUserTells ==
  ASSUME WorkspacesInv, NEW t \in Tabs, NEW c, FindUser(t, c)
  PROVE  Grown /\ Stores' /\ tab[t].going # Idle /\ \E x, w : Tells(t, c, x, w)
<1>1. UNCHANGED <<apiVars, session, posts>> /\ Loading(t, c, "sent")
  BY DEF FindUser
<1>2. Grown /\ Stores' /\ users' = users /\ members' = members
  BY <1>1, SameUsers DEF apiVars, Stores
<1> PICK g : g = tab[t].going
  OBVIOUS
<1>3. /\ g = tab[t].going /\ g \in Nav /\ g # Idle /\ c \in DOMAIN g.calls /\ g.calls[c] = "sent"
      /\ g.who \in Accounts /\ g.saw \in Seq(Workspace)
      /\ Reads(g) /\ members[g.who] \in Seq(Workspace)
  BY <1>1, TabIs DEF Loading, WorkspacesInv, Stores, Nav
<1>4. tab[t] \in Tab
  BY TabIs
<1>5. CASE g.who \in users
  <2>1. PICK w : w = IF c = "organizations" THEN members[g.who] ELSE g.saw
    OBVIOUS
  <2>2. Becomes(t, Told(tab[t], c, "done", w))
    <3>1. Becomes(t, Done(tab[t], c, members[g.who]))
      BY <1>3, <1>5 DEF FindUser, Answered, Done
    <3> QED
      BY <1>3, <1>4, <2>1, <3>1, Outcomes
  <2>3. Answers(g, c, "done", w)'
    BY <1>2, <1>3, <1>5, <2>1 DEF Answers, CallStates
  <2> QED
    BY <1>2, <1>3, <2>2, <2>3 DEF Tells
<1>6. CASE g.who \notin users
  <2>1. Becomes(t, Told(tab[t], c, "no row", g.saw))
    <3>1. Becomes(t, Stuck(tab[t], c, "no row"))
      BY <1>3, <1>6 DEF FindUser, Stuck
    <3> QED
      BY <1>3, <1>4, <3>1, Outcomes
  <2>2. Answers(g, c, "no row", g.saw)'
    BY <1>2, <1>3, <1>6 DEF Answers, CallStates, Reads
  <2> QED
    BY <1>2, <1>3, <1>6, <2>1, <2>2 DEF Tells, Sure
<1> QED
  BY <1>5, <1>6

LEMMA CreateUserTells ==
  ASSUME WorkspacesInv, NEW t \in Tabs, NEW c, CreateUser(t, c)
  PROVE  Grown /\ Stores' /\ tab[t].going # Idle /\ \E x, w : Tells(t, c, x, w)
<1>1. UNCHANGED <<members, invited, session, posts>>
  BY DEF CreateUser
<1>8. Loading(t, c, "no row")
  BY DEF CreateUser
<1> PICK g : g = tab[t].going
  OBVIOUS
<1>2. /\ g = tab[t].going /\ g \in Nav /\ g # Idle /\ c \in DOMAIN g.calls /\ g.calls[c] = "no row"
      /\ g.who \in Accounts /\ g.saw \in Seq(Workspace)
      /\ Reads(g) /\ members[g.who] \in Seq(Workspace)
  BY <1>8, TabIs DEF Loading, WorkspacesInv, Stores, Nav
<1>3. users' = users \cup {g.who}
  BY <1>2 DEF CreateUser
<1>4. Grown /\ Stores'
  BY <1>1, <1>2, <1>3 DEF Grown, Stores, WorkspacesInv
<1>5. tab[t] \in Tab /\ ~ g.knew
  BY <1>2, TabIs DEF Reads
<1>6. CASE g.who \in users
  <2>1. Becomes(t, Told(tab[t], c, "failed", g.saw))
    <3>1. Becomes(t, Stuck(tab[t], c, "failed"))
      BY <1>2, <1>6 DEF CreateUser, Stuck
    <3> QED
      BY <1>2, <1>5, <3>1, Outcomes
  <2>2. Answers(g, c, "failed", g.saw)'
    BY <1>2, <1>3, <1>5 DEF Answers, CallStates
  <2> QED
    BY <1>2, <1>4, <2>1, <2>2 DEF Tells, Sure
<1>7. CASE g.who \notin users
  <2>1. PICK w : w = IF c = "organizations" THEN members[g.who] ELSE g.saw
    OBVIOUS
  <2>2. Becomes(t, Told(tab[t], c, "done", w))
    <3>1. Becomes(t, Done(tab[t], c, members[g.who]))
      BY <1>2, <1>7 DEF CreateUser, Answered, Done
    <3> QED
      BY <1>2, <1>5, <2>1, <3>1, Outcomes
  <2>3. Answers(g, c, "done", w)'
    BY <1>1, <1>2, <1>3, <2>1 DEF Answers, CallStates
  <2> QED
    BY <1>2, <1>4, <2>2, <2>3 DEF Tells
<1> QED
  BY <1>6, <1>7

LEMMA FindUserInv == ASSUME WorkspacesInv, NEW t \in Tabs, NEW c, FindUser(t, c) PROVE WorkspacesInv'
<1>1. posts' = posts
  BY DEF FindUser
<1> QED
  BY <1>1, FindUserTells, ToldOK

LEMMA CreateUserInv == ASSUME WorkspacesInv, NEW t \in Tabs, NEW c, CreateUser(t, c) PROVE WorkspacesInv'
<1>1. posts' = posts
  BY DEF CreateUser
<1> QED
  BY <1>1, CreateUserTells, ToldOK

\* A navigation begins.
LEMMA GoesOK ==
  ASSUME WorkspacesInv, UNCHANGED apiVars, session' \in Accounts \cup {None}, NEW t \in Tabs, NEW r \in Tab, Shows(r),
         NEW who \in Accounts \cup {None}, NEW to \in Workspace \cup {Home},
         NEW kind \in {"load", "refresh", "push"}, NEW refresh \in BOOLEAN, NEW sentFor \in Accounts \cup {None},
         sentFor # None /\ to # Home => Has(sentFor, to),
         kind = "load" <=> r.page \in {"blank", "invite"},
         to = Home => kind = "load",
         kind = "refresh" => to = r.org /\ r.page = "workspace",
         kind = "refresh" \/ Lists(r),
         kind = "push" => refresh \/ to \in r.listed \/ r.mixed \/ r.listedLate \/ to = r.back,
         Becomes(t, Going(r, who, to, kind, refresh, sentFor)), Requested'
  PROVE  WorkspacesInv'
<1>1. PICK s : s = Going(r, who, to, kind, refresh, sentFor)
  OBVIOUS
<1>2. Stores /\ Grown /\ Stores'
  BY SameUsers
<1>3. TabOK(s)
  BY <1>1, <1>2, GoingOK
<1>4. TabOK(s)'
  BY <1>3, SameUsers
<1>5. Becomes(t, s)
  BY <1>1
<1> QED
  BY <1>2, <1>4, <1>5, OneTabInv


\* A navigation ends.
LEMMA ShowsOK ==
  ASSUME WorkspacesInv, UNCHANGED <<apiVars, session, posts>>, NEW t \in Tabs, NEW page, NEW org,
         tab[t].going # Idle, Comes(tab[t].going, page, org), page # "workspace",
         Becomes(t, Show(t, page, org))
  PROVE  WorkspacesInv'
<1>1. PICK r, s : r = tab[t] /\ s = Shown(r, page, org)
  OBVIOUS
<1>2. TabOK(r) /\ r # Blank
  BY <1>1, TabIs, NotBlank
<1>3. Stores /\ Grown /\ Stores'
  BY SameUsers DEF Stores
<1>4. /\ TabOK(s) /\ s.doing = r.doing /\ s.page = page
      /\ ~ s.mixed /\ r.page \notin {"blank", "invite"} => ~ r.mixed /\ r.listed \subseteq s.listed
  BY <1>1, <1>2, <1>3, ShowOK
<1>5. TabOK(s)' /\ Becomes(t, s)
  BY <1>1, <1>4, SameUsers, ShowIs
<1>6. Keeps(r, s)
  BY <1>2, <1>4 DEF Keeps, Comes
<1>7. Requested'
  BY <1>1, <1>3, <1>5, <1>6, RequestsEnd
<1> QED
  BY <1>3, <1>5, <1>7, OneTabInv

LEMMA RenderFailsInv ==
  ASSUME WorkspacesInv, NEW t \in Tabs, RenderFails(t)
  PROVE  WorkspacesInv'
<1>1. UNCHANGED <<apiVars, session, posts>> /\ Becomes(t, Show(t, "error", None))
  BY DEF RenderFails
<1>2. tab[t].going # Idle /\ Comes(tab[t].going, "error", None)
  BY DEF RenderFails, Loading, Comes
<1> QED
  BY <1>1, <1>2, ShowsOK

LEMMA LoadedIs ==
  ASSUME WorkspacesInv, NEW t \in Tabs, Loaded(t), NEW g, g = tab[t].going
  PROVE  /\ g # Idle /\ g \in Nav /\ g.calls["organizations"] = "done" /\ Reads(g) /\ Fits(tab[t], g)
         /\ g.who \in Accounts /\ g.saw \in Seq(Workspace) /\ g.sentFor \in Accounts \cup {None}
         /\ g.to \in Workspace \cup {Home} /\ g.refresh \in BOOLEAN
         /\ Range(g.saw) \subseteq Workspace
<1>1. g # Idle /\ g \in Nav /\ Reads(g) /\ Fits(tab[t], g)
  BY TabIs DEF Loaded
<1>2. g.calls["organizations"] = "done"
  BY <1>1, NavFields DEF Loaded
<1>3. /\ g.who \in Accounts /\ g.saw \in Seq(Workspace) /\ g.sentFor \in Accounts \cup {None}
      /\ g.to \in Workspace \cup {Home} /\ g.refresh \in BOOLEAN
  BY <1>1 DEF Nav
<1> QED
  BY <1>1, <1>2, <1>3, RangeSeq

LEMMA NotFoundInv ==
  ASSUME WorkspacesInv, NEW t \in Tabs, NotFound(t)
  PROVE  WorkspacesInv'
<1>1. UNCHANGED <<apiVars, session, posts>> /\ Becomes(t, Show(t, "missing", None)) /\ Loaded(t)
  BY DEF NotFound
<1>2. tab[t].going # Idle /\ Comes(tab[t].going, "missing", None)
  BY <1>1, LoadedIs DEF NotFound, Comes
<1> QED
  BY <1>1, <1>2, ShowsOK

LEMMA LandInv ==
  ASSUME WorkspacesInv, NEW t \in Tabs, Land(t)
  PROVE  WorkspacesInv'
<1> PICK g : g = tab[t].going
  OBVIOUS
<1>1. UNCHANGED <<apiVars, session, posts>> /\ Loaded(t) /\ g.to = Home
  BY DEF Land
<1>2. /\ g # Idle /\ g \in Nav /\ g.calls["organizations"] = "done" /\ Reads(g) /\ Fits(tab[t], g)
      /\ g.who \in Accounts /\ g.saw \in Seq(Workspace) /\ g.refresh \in BOOLEAN
      /\ Range(g.saw) \subseteq Workspace
  BY <1>1, LoadedIs
<1>3. CASE g.saw = <<>>
  <2>1. Becomes(t, Show(t, "empty", None)) /\ Comes(tab[t].going, "empty", None)
    BY <1>2, <1>3 DEF Land, Comes
  <2> QED
    BY <1>1, <1>2, <2>1, ShowsOK
<1>4. CASE g.saw # <<>>
  <2> PICK r : r = [tab[t] EXCEPT !.going = Idle]
    OBVIOUS
  <2>1. tab[t] \in Tab /\ Shows(tab[t]) /\ tab[t] # Blank
    BY <1>2, TabIs, NotBlank
  <2>2. /\ r \in Tab /\ r.page = tab[t].page /\ r.org = tab[t].org /\ r.back = tab[t].back
        /\ r.listed = tab[t].listed /\ r.mixed = tab[t].mixed /\ r.account = tab[t].account
        /\ r.sentFor = tab[t].sentFor /\ r.knew = tab[t].knew /\ r.doing = tab[t].doing
        /\ r.listedLate = tab[t].listedLate
    BY <2>1 DEF Tab
  <2>3. Shows(r)
    BY <2>1, <2>2 DEF Shows, Reach
  <2>4. r.page \in {"blank", "invite"}
    BY <1>1, <1>2, <2>2 DEF Fits
  <2>5. Lists(r)
    BY <2>4 DEF Lists
  <2> PICK o : o = Landing(g.saw)
    OBVIOUS
  <2>6. o \in Range(g.saw)
    BY <1>2, <1>4, RangeSeq DEF Landing
  <2>7. Has(g.who, o) /\ o \in Workspace
    BY <1>2, <2>6 DEF Reads
  <2>8. Becomes(t, Going(r, session, o, "load", g.refresh, g.who))
    BY <1>4 DEF Land
  <2> PICK s : s = Going(r, session, o, "load", g.refresh, g.who)
    OBVIOUS
  <2>9. Keeps(tab[t], s)
    <3>1. s = Blank \/ (s.page = r.page /\ s.doing = r.doing /\ s.mixed = r.mixed /\ s.listed = r.listed)
      BY <2>2 DEF Going, Tab
    <3> QED
      BY <2>1, <2>2, <2>4, <3>1 DEF Keeps
  <2>10. Requested'
    BY <1>1, <2>8, <2>9, RequestsEnd, SameUsers
  <2>11. session \in Accounts \cup {None} /\ session' \in Accounts \cup {None}
    BY <1>1 DEF WorkspacesInv, Stores
  <2>12. o # Home
    BY <2>7, WorkspacesAssumption
  <2> QED
    BY <1>1, <1>2, <2>2, <2>3, <2>4, <2>5, <2>7, <2>8, <2>10, <2>11, <2>12, GoesOK
<1> QED
  BY <1>3, <1>4

LEMMA ArriveInv ==
  ASSUME WorkspacesInv, NEW t \in Tabs, Arrive(t)
  PROVE  WorkspacesInv'
<1> PICK g, r, w : g = tab[t].going /\ r = tab[t] /\ w = Shown(r, "workspace", g.to)
  OBVIOUS
<1>1. UNCHANGED <<apiVars, session>> /\ Loaded(t) /\ g.to # Home /\ g.to \in Range(g.saw)
  BY DEF Arrive
<1>2. /\ g # Idle /\ g \in Nav /\ g.calls["organizations"] = "done" /\ Reads(g)
      /\ g.sentFor \in Accounts \cup {None} /\ g.to \in Workspace /\ g.refresh \in BOOLEAN
  BY <1>1, LoadedIs
<1>3. TabOK(r) /\ r # Blank /\ Stores
  BY <1>2, TabIs, NotBlank DEF WorkspacesInv
<1>4. Comes(g, "workspace", g.to) /\ r.going = g
  BY <1>1, <1>2 DEF Comes
<1>5. /\ w \in Tab /\ Shows(w) /\ w.doing = r.doing /\ w.page = "workspace" /\ w.org = g.to
      /\ ~ g.refresh => TabOK(w)
      /\ ~ w.mixed /\ r.page \notin {"blank", "invite"} => ~ r.mixed /\ r.listed \subseteq w.listed
  BY <1>2, <1>3, <1>4, ShowOK
<1>6. session \in Accounts \cup {None} /\ session' \in Accounts \cup {None}
  BY <1>1 DEF WorkspacesInv, Stores
<1>7. Grown /\ Stores'
  BY <1>1, <1>6, SameUsers
<1>8. Show(t, "workspace", g.to) = w
  BY ShowIs
<1>9. ASSUME NEW s, Becomes(t, s), Keeps(r, s) PROVE Requested'
  <2>1. CASE posts' = posts
    BY <1>7, <1>9, <2>1, RequestsEnd
  <2>2. CASE posts' = Post(t, g.to, "sync", users)
    BY <1>2, <1>7, <1>9, <2>2, RequestSent
  <2> QED
    BY <2>1, <2>2 DEF Arrive, Sync
<1>10. CASE g.refresh
  <2> PICK s : s = Going(w, session, g.to, "refresh", FALSE, g.sentFor)
    OBVIOUS
  <2>1. Becomes(t, s)
    BY <1>8, <1>10 DEF Arrive
  <2>2. Keeps(r, s)
    <3>1. s = Blank \/ (s.page = w.page /\ s.doing = w.doing /\ s.mixed = w.mixed /\ s.listed = w.listed)
      BY <1>5 DEF Going, Tab
    <3> QED
      BY <1>3, <1>5, <3>1 DEF Keeps
  <2>3. Requested'
    BY <1>9, <2>1, <2>2
  <2>4. g.sentFor # None => Has(g.sentFor, g.to)
    BY <1>1, <1>2 DEF Reads
  <2> QED
    BY <1>1, <1>2, <1>5, <1>6, <2>1, <2>3, <2>4, GoesOK
<1>11. CASE ~ g.refresh
  <2>1. Becomes(t, w) /\ TabOK(w)
    BY <1>5, <1>8, <1>11 DEF Arrive
  <2>2. Keeps(r, w)
    BY <1>3, <1>5 DEF Keeps
  <2>3. Requested' /\ TabOK(w)'
    BY <1>1, <1>9, <2>1, <2>2, SameUsers
  <2> QED
    BY <1>7, <2>1, <2>3, OneTabInv
<1> QED
  BY <1>10, <1>11

\* The user leaves the page of a tab.
LEMMA LeavesOK ==
  ASSUME WorkspacesInv, UNCHANGED apiVars, session' \in Accounts \cup {None}, NEW t \in Tabs,
         NEW s, Becomes(t, s), posts' = Abandoned(t)
  PROVE  Requested'
<1>1. \A p \in posts' : p.tab # t
  BY DEF Abandoned
<1>2. posts' \subseteq posts
  BY DEF Abandoned
<1> QED
  BY <1>1, <1>2, RequestsEnd, SameUsers

LEMMA LoadsOK ==
  ASSUME WorkspacesInv, UNCHANGED apiVars, session' \in Accounts \cup {None}, NEW t \in Tabs,
         NEW who \in Accounts \cup {None}, NEW to \in Workspace \cup {Home},
         Becomes(t, Going(Blank, who, to, "load", FALSE, None)), posts' = Abandoned(t)
  PROVE  WorkspacesInv'
<1>1. Blank \in Tab /\ Shows(Blank) /\ Lists(Blank)
  BY BlankOK DEF TabOK
<1>2. Blank.page = "blank"
  BY DEF Blank
<1>3. Requested'
  BY LeavesOK
<1> QED
  BY <1>1, <1>2, <1>3, GoesOK

LEMMA VisitInv ==
  ASSUME WorkspacesInv, NEW t \in Tabs, NEW to \in Workspace \cup {Home}, Visit(t, to)
  PROVE  WorkspacesInv'
<1>1. /\ UNCHANGED <<apiVars, session>> /\ posts' = Abandoned(t)
      /\ Becomes(t, Going(Blank, session, to, "load", FALSE, None))
  BY DEF Visit, Leave
<1>2. session \in Accounts \cup {None}
  BY DEF WorkspacesInv, Stores
<1> QED
  BY <1>1, <1>2, LoadsOK

\* The addresses are of workspaces, or /app.
LEMMA AddressesAre ==
  ASSUME WorkspacesInv
  PROVE  Addresses \subseteq Workspace \cup {Home}
<1>1. \A a \in Accounts : members[a] \in Seq(Workspace)
  BY DEF WorkspacesInv, Stores
<1>2. ASSUME NEW a \in Accounts PROVE Range(members[a]) \subseteq Workspace
  BY <1>1 DEF Range
<1> QED
  BY <1>2 DEF Addresses

\* The link of an invitation is opened in a tab.
LEMMA InvitesOK ==
  ASSUME WorkspacesInv, UNCHANGED apiVars, session' \in Accounts \cup {None}, NEW t \in Tabs, NEW a \in Accounts,
         Becomes(t, [Blank EXCEPT !.page = "invite", !.account = a]), posts' = Abandoned(t)
  PROVE  WorkspacesInv'
<1> PICK s : s = [Blank EXCEPT !.page = "invite", !.account = a]
  OBVIOUS
<1>1. Becomes(t, s)
  OBVIOUS
<1>3. /\ s.page = "invite" /\ s.org = None /\ s.back = None /\ s.listed = {} /\ s.going = Idle
      /\ s.doing = Nothing /\ s \in Tab
  BY DEF Blank, Tab, Doings, Nothing, Idle
<1>4. Reach(s) = {}
  BY <1>3 DEF Reach
<1>5. TabOK(s)
  BY <1>3, <1>4 DEF TabOK, Shows, Lists
<1>6. Grown /\ Stores' /\ TabOK(s)'
  BY <1>5, SameUsers
<1>7. Requested'
  BY <1>1, LeavesOK
<1> QED
  BY <1>1, <1>6, <1>7, OneTabInv

LEMMA SignInInv ==
  ASSUME WorkspacesInv, NEW t \in Tabs, NEW a \in Accounts, SignIn(t, a)
  PROVE  WorkspacesInv'
<1>1. UNCHANGED apiVars /\ session' = a /\ posts' = Abandoned(t)
  BY DEF SignIn, Leave
<1>2. ASSUME NEW to \in Addresses, Becomes(t, Going(Blank, a, to, "load", FALSE, None)) PROVE WorkspacesInv'
  BY <1>1, <1>2, AddressesAre, LoadsOK
<1>3. ASSUME NEW b \in Accounts, Becomes(t, [Blank EXCEPT !.page = "invite", !.account = b]) PROVE WorkspacesInv'
  BY <1>1, <1>3, InvitesOK
<1> QED
  BY <1>2, <1>3 DEF SignIn

LEMMA SignOutInv ==
  ASSUME WorkspacesInv, NEW t \in Tabs, SignOut(t)
  PROVE  WorkspacesInv'
<1>1. UNCHANGED apiVars /\ session' = None /\ posts' = Abandoned(t) /\ Becomes(t, Blank)
  BY DEF SignOut
<1>2. Grown /\ Stores' /\ TabOK(Blank)'
  BY <1>1, BlankOK, SameUsers
<1>3. Requested'
  BY <1>1, LeavesOK
<1> QED
  BY <1>1, <1>2, <1>3, OneTabInv

LEMMA OpenInvitationInv ==
  ASSUME WorkspacesInv, NEW t \in Tabs, NEW a \in Accounts, OpenInvitation(t, a)
  PROVE  WorkspacesInv'
<1>1. /\ UNCHANGED <<apiVars, session>> /\ posts' = Abandoned(t)
      /\ Becomes(t, [Blank EXCEPT !.page = "invite", !.account = a])
  BY DEF OpenInvitation, Leave
<1>2. session' \in Accounts \cup {None}
  BY <1>1 DEF WorkspacesInv, Stores
<1> QED
  BY <1>1, <1>2, InvitesOK

LEMMA BackInv ==
  ASSUME WorkspacesInv, NEW t \in Tabs, Back(t)
  PROVE  WorkspacesInv'
<1> PICK r, s : r = tab[t] /\ s = Going(r, session, r.back, "push", FALSE, None)
  OBVIOUS
<1>1. UNCHANGED <<apiVars, session>> /\ posts' = posts /\ Becomes(t, s)
  BY DEF Back
<1>2. r.page \notin {"blank", "invite"} /\ r.back # None
  BY DEF Back, HasShell
<1>3. r \in Tab /\ Shows(r) /\ Lists(r) /\ r # Blank
  BY <1>2, TabIs, NotBlank
<1>4. r.back \in Workspace /\ r.back # Home
  BY <1>2, <1>3, WorkspacesAssumption DEF Tab
<1>5. session \in Accounts \cup {None} /\ session' \in Accounts \cup {None}
  BY <1>1 DEF WorkspacesInv, Stores
<1>6. Keeps(r, s)
  <2>1. s = Blank \/ (s.page = r.page /\ s.doing = r.doing /\ s.mixed = r.mixed /\ s.listed = r.listed)
    BY <1>3 DEF Going, Tab
  <2> QED
    BY <1>3, <2>1 DEF Keeps
<1>7. Requested'
  BY <1>1, <1>5, <1>6, RequestsEnd, SameUsers
<1> QED
  BY <1>1, <1>2, <1>3, <1>4, <1>5, <1>7, GoesOK

\* A tab begins or ends to wait for something else than a page.
LEMMA DoingOK ==
  ASSUME NEW r, TabOK(r), NEW d \in Doings, r.page # "blank" \/ d = Nothing, NEW s, s = [r EXCEPT !.doing = d]
  PROVE  /\ TabOK(s) /\ s.doing = d
         /\ s.page = r.page /\ s.org = r.org /\ s.back = r.back /\ s.listed = r.listed /\ s.mixed = r.mixed
         /\ s.account = r.account /\ s.sentFor = r.sentFor /\ s.knew = r.knew
         /\ s.listedLate = r.listedLate /\ s.going = r.going
<1>1. r \in Tab /\ Shows(r) /\ Lists(r) /\ (r.going # Idle => Reads(r.going) /\ Fits(r, r.going))
  BY DEF TabOK
<1>2. /\ s \in Tab /\ s.doing = d
      /\ s.page = r.page /\ s.org = r.org /\ s.back = r.back /\ s.listed = r.listed /\ s.mixed = r.mixed
      /\ s.account = r.account /\ s.sentFor = r.sentFor /\ s.knew = r.knew
      /\ s.listedLate = r.listedLate /\ s.going = r.going
  BY <1>1 DEF Tab
<1>3. Reach(s) = Reach(r)
  BY <1>2 DEF Reach
<1>4. Shows(s)
  BY <1>1, <1>2, <1>3 DEF Shows
<1>5. Lists(s)
  BY <1>1, <1>2 DEF Lists
<1>6. s.going # Idle => Reads(s.going) /\ Fits(s, s.going)
  BY <1>1, <1>2, <1>3 DEF Fits
<1> QED
  BY <1>2, <1>4, <1>5, <1>6 DEF TabOK

\* A tab that waits for nothing, or for the API, has sent no request that it waits for.
LEMMA NotWaiting ==
  ASSUME WorkspacesInv, NEW t \in Tabs, tab[t] # Blank,
         tab[t].doing = Nothing \/ "who" \in DOMAIN tab[t].doing
  PROVE  \A p \in posts : p.tab = t => p.why = "sync"
<1> SUFFICES ASSUME NEW p \in posts, p.tab = t, p.why # "sync" PROVE FALSE
  OBVIOUS
<1>1. p.why \in {"select", "found", "join"} /\ tab[t].doing = [what |-> p.why]
  BY DEF WorkspacesInv, Requested, PostOK, PostType
<1> QED
  BY <1>1 DEF Nothing

LEMMA SelectOrganizationInv ==
  ASSUME WorkspacesInv, NEW t \in Tabs, NEW o \in Workspace, SelectOrganization(t, o)
  PROVE  WorkspacesInv'
<1> PICK r, s : r = tab[t] /\ s = [r EXCEPT !.doing = [what |-> "select"]]
  OBVIOUS
<1>1. UNCHANGED <<apiVars, session>> /\ posts' = Post(t, o, "select", users) /\ Becomes(t, s)
  BY DEF SelectOrganization
<1>2. r.page \notin {"blank", "invite"} /\ r.doing = Nothing /\ o \in r.listed
  BY DEF SelectOrganization, HasShell
<1>3. TabOK(r) /\ r # Blank
  BY <1>2, TabIs, NotBlank
<1>4. [what |-> "select"] \in Doings
  BY DEF Doings
<1>5. TabOK(s) /\ s.doing = [what |-> "select"] /\ s.page = r.page /\ s.listed = r.listed
  BY <1>2, <1>3, <1>4, DoingOK
<1>6. session' \in Accounts \cup {None}
  BY <1>1 DEF WorkspacesInv, Stores
<1>7. Grown /\ Stores' /\ TabOK(s)'
  BY <1>1, <1>5, <1>6, SameUsers
<1>8. \A p \in posts : p.tab = t => p.why = "sync"
  BY <1>2, <1>3, NotWaiting
<1>9. s.page \notin {"blank", "invite"} /\ o \in s.listed
  BY <1>2, <1>5
<1>10. s.doing = WaitsFor("select")
  BY <1>5 DEF WaitsFor
<1>11. Requested'
  BY <1>1, <1>7, <1>8, <1>9, <1>10, RequestAwaited
<1> QED
  BY <1>1, <1>7, <1>11, OneTabInv

LEMMA SendInv ==
  ASSUME WorkspacesInv, NEW t \in Tabs, NEW what \in {"found", "join"}, Send(t, what), tab[t].page # "blank"
  PROVE  WorkspacesInv'
<1> PICK r, d, s : /\ r = tab[t] /\ d = [what |-> what, who |-> session, knew |-> session \in users]
                   /\ s = [r EXCEPT !.doing = d]
  OBVIOUS
<1>1. UNCHANGED <<apiVars, session, posts>> /\ Becomes(t, s) /\ r.doing = Nothing /\ session # None
  BY DEF Send
<1>2. TabOK(r) /\ r # Blank
  BY TabIs, NotBlank
<1>3. session \in Accounts /\ session' \in Accounts \cup {None}
  BY <1>1 DEF WorkspacesInv, Stores
<1>4. d \in Doings
  BY <1>3 DEF Doings
<1>5. TabOK(s)
  BY <1>2, <1>4, DoingOK
<1>6. Grown /\ Stores' /\ TabOK(s)'
  BY <1>1, <1>3, <1>5, SameUsers
<1>7. \A p \in posts : p.tab = t => p.why = "sync"
  BY <1>1, <1>2, NotWaiting
<1>8. Requested'
  BY <1>1, <1>6, <1>7, RequestsEnd
<1> QED
  BY <1>1, <1>6, <1>8, OneTabInv

\* What a tab that waits for the API asked it for.
LEMMA AskedIs ==
  ASSUME WorkspacesInv, NEW t \in Tabs, NEW what, Asked(t, what)
  PROVE  /\ what \in {"found", "join"} /\ tab[t].doing.what = what
         /\ tab[t].doing.who \in Accounts /\ "who" \in DOMAIN tab[t].doing
         /\ tab[t].doing # Nothing /\ tab[t] # Blank /\ tab[t].page # "blank"
<1>1. tab[t].doing \in Doings
  BY TabIs DEF Tab
<1>2. tab[t].doing.what = what /\ "who" \in DOMAIN tab[t].doing
  BY DEF Asked
<1>3. tab[t].doing # Nothing
  BY <1>2 DEF Nothing
<1>4. tab[t].doing \in [what : {"found", "join"}, who : Accounts, knew : BOOLEAN]
  BY <1>1, <1>2, <1>3 DEF Doings
<1> QED
  BY <1>2, <1>3, <1>4, NotBlank

LEMMA JoinGrows ==
  ASSUME WorkspacesInv, NEW a \in Accounts, NEW org \in Workspace, Join(a, org), UNCHANGED session,
         invited' \in [Accounts -> SUBSET Workspace]
  PROVE  Grown /\ Stores'
<1>1. members \in [Accounts -> Seq(Workspace)] /\ users \subseteq Accounts /\ session \in Accounts \cup {None}
  BY DEF WorkspacesInv, Stores
<1>2. members' = [members EXCEPT ![a] = Append(@, org)] /\ users' = users \cup {a}
  BY DEF Join
<1>3. members[a] \in Seq(Workspace)
  BY <1>1
<1>4. Append(members[a], org) \in Seq(Workspace) /\ \A x \in Range(members[a]) : x \in Range(Append(members[a], org))
  BY <1>3, RangeAppend
<1>5. members' \in [Accounts -> Seq(Workspace)]
  BY <1>1, <1>2, <1>4
<1>6. \A b \in Accounts : Range(members[b]) \subseteq Range(members'[b])
  <2>1. ASSUME NEW b \in Accounts, b # a PROVE members'[b] = members[b]
    BY <1>1, <1>2, <2>1
  <2>2. members'[a] = Append(members[a], org)
    BY <1>1, <1>2
  <2> QED
    BY <1>4, <2>1, <2>2
<1> QED
  BY <1>1, <1>2, <1>5, <1>6 DEF Grown, Stores

LEMMA ProceedInv ==
  ASSUME WorkspacesInv, NEW t \in Tabs, NEW org \in Workspace, NEW what, Asked(t, what), Grown, Stores', Proceed(t, org)
  PROVE  WorkspacesInv'
<1> PICK r : r = tab[t]
  OBVIOUS
<1>1. /\ what \in {"found", "join"} /\ r.doing.what = what /\ r # Blank /\ r.page # "blank"
      /\ "who" \in DOMAIN r.doing
  BY AskedIs
<1>2. TabOK(r) /\ \A p \in posts : p.tab = t => p.why = "sync"
  BY <1>1, TabIs, NotWaiting
<1>3. Stores
  BY DEF WorkspacesInv
<1>4. CASE posts' = Post(t, org, r.doing.what, users') /\ Becomes(t, [r EXCEPT !.doing = [what |-> @.what]])
  <2> PICK s : s = [r EXCEPT !.doing = [what |-> what]]
    OBVIOUS
  <2>1. Becomes(t, s) /\ posts' = Post(t, org, what, users')
    BY <1>1, <1>4
  <2>2. [what |-> what] \in Doings
    BY <1>1 DEF Doings
  <2>3. TabOK(s) /\ s.doing = [what |-> what]
    BY <1>1, <1>2, <2>2, DoingOK
  <2>4. TabOK(s)'
    BY <1>3, <2>3, TabGrown
  <2>5. s.doing = WaitsFor(what)
    BY <2>3 DEF WaitsFor
  <2>6. Requested'
    BY <1>1, <1>2, <2>1, <2>5, RequestAwaited
  <2> QED
    BY <2>1, <2>4, <2>6, OneTabInv
<1>5. CASE posts' = posts /\ Becomes(t, [r EXCEPT !.doing = Nothing])
  <2> PICK s : s = [r EXCEPT !.doing = Nothing]
    OBVIOUS
  <2>1. Nothing \in Doings
    BY DEF Doings
  <2>2. TabOK(s)
    BY <1>2, <2>1, DoingOK
  <2>3. TabOK(s)'
    BY <1>3, <2>2, TabGrown
  <2>4. Requested'
    BY <1>2, <1>5, RequestsEnd
  <2> QED
    BY <1>5, <2>3, <2>4, OneTabInv
<1> QED
  BY <1>4, <1>5 DEF Proceed

LEMMA CreateForUserInv ==
  ASSUME WorkspacesInv, NEW t \in Tabs, NEW org \in Workspace, CreateForUser(t, org)
  PROVE  WorkspacesInv'
<1>1. Asked(t, "found") /\ Join(tab[t].doing.who, org) /\ Proceed(t, org) /\ UNCHANGED <<invited, session>>
  BY DEF CreateForUser
<1>2. tab[t].doing.who \in Accounts
  BY <1>1, AskedIs
<1>3. invited' \in [Accounts -> SUBSET Workspace]
  BY <1>1 DEF WorkspacesInv, Stores
<1>4. Grown /\ Stores'
  BY <1>1, <1>2, <1>3, JoinGrows
<1> QED
  BY <1>1, <1>4, ProceedInv

LEMMA AcceptInv ==
  ASSUME WorkspacesInv, NEW t \in Tabs, NEW org \in Workspace, Accept(t, org)
  PROVE  WorkspacesInv'
<1>1. Asked(t, "join") /\ Join(tab[t].doing.who, org) /\ Proceed(t, org) /\ UNCHANGED session
  BY DEF Accept
<1>2. tab[t].doing.who \in Accounts
  BY <1>1, AskedIs
<1>3. invited' \in [Accounts -> SUBSET Workspace]
  BY <1>2 DEF Accept, WorkspacesInv, Stores
<1>4. Grown /\ Stores'
  BY <1>1, <1>2, <1>3, JoinGrows
<1> QED
  BY <1>1, <1>4, ProceedInv

LEMMA RefuseInvitationInv ==
  ASSUME WorkspacesInv, NEW t \in Tabs, RefuseInvitation(t)
  PROVE  WorkspacesInv'
<1> PICK r, s : r = tab[t] /\ s = [r EXCEPT !.doing = Nothing]
  OBVIOUS
<1>1. /\ Asked(t, "join") /\ UNCHANGED <<members, invited, session, posts>> /\ Becomes(t, s)
      /\ users' = users \cup {r.doing.who}
  BY DEF RefuseInvitation
<1>2. r.doing.who \in Accounts /\ r # Blank /\ "who" \in DOMAIN r.doing
  BY <1>1, AskedIs
<1>3. Grown /\ Stores' /\ Stores
  BY <1>1, <1>2 DEF Grown, Stores, WorkspacesInv
<1>4. TabOK(r) /\ \A p \in posts : p.tab = t => p.why = "sync"
  BY <1>2, TabIs, NotWaiting
<1>5. Nothing \in Doings
  BY DEF Doings
<1>6. TabOK(s)
  BY <1>4, <1>5, DoingOK
<1>7. TabOK(s)'
  BY <1>3, <1>6, TabGrown
<1>8. Requested'
  BY <1>1, <1>3, <1>4, RequestsEnd
<1> QED
  BY <1>1, <1>3, <1>7, <1>8, OneTabInv

LEMMA SyncFailsInv ==
  ASSUME WorkspacesInv, NEW t \in Tabs, SyncFails(t)
  PROVE  WorkspacesInv'
<1> PICK r, s : r = tab[t] /\ s = [r EXCEPT !.doing = Nothing]
  OBVIOUS
<1>1. PICK what : Asked(t, what)
  BY DEF SyncFails
<1>2. UNCHANGED <<apiVars, session, posts>> /\ Becomes(t, s)
  BY DEF SyncFails
<1>3. r # Blank /\ "who" \in DOMAIN r.doing
  BY <1>1, AskedIs
<1>4. session' \in Accounts \cup {None}
  BY <1>2 DEF WorkspacesInv, Stores
<1>5. TabOK(r) /\ \A p \in posts : p.tab = t => p.why = "sync"
  BY <1>3, TabIs, NotWaiting
<1>6. Nothing \in Doings
  BY DEF Doings
<1>7. TabOK(s)
  BY <1>5, <1>6, DoingOK
<1>8. Grown /\ Stores' /\ TabOK(s)'
  BY <1>2, <1>4, <1>7, SameUsers
<1>9. Requested'
  BY <1>2, <1>5, <1>8, RequestsEnd
<1> QED
  BY <1>2, <1>8, <1>9, OneTabInv

LEMMA SameTabs ==
  ASSUME WorkspacesInv, Grown, Stores', UNCHANGED tab, Requested'
  PROVE  WorkspacesInv'
<1>1. ASSUME NEW t \in Tabs PROVE TabOK(tab[t])'
  <2>1. PICK r : r = tab[t]
    OBVIOUS
  <2>2. TabOK(r)'
    BY <2>1, TabGrown DEF WorkspacesInv
  <2> QED
    BY <2>1, <2>2
<1> QED
  BY <1>1 DEF WorkspacesInv

LEMMA ValidateInv ==
  ASSUME WorkspacesInv, NEW p \in posts, Validate(p)
  PROVE  WorkspacesInv'
<1>12. PICK at \in MayAnswer(p) : posts' = (posts \ {p}) \cup {[p EXCEPT !.at = at]}
  BY DEF Validate
<1>11. at \in {"ok", "refused"} /\ (at = "ok" => p.who # None /\ Has(p.who, p.org))
  BY <1>12 DEF MayAnswer, Has
<1>10. PICK q, P, N : q = [p EXCEPT !.at = at] /\ P = posts \ {p} /\ N = {q}
  OBVIOUS
<1>1. /\ UNCHANGED <<members, invited, session, tab>> /\ users' = users \cup ({p.who} \ {None})
      /\ posts' = P \cup N
  BY <1>10, <1>12 DEF Validate
<1>2. Stores /\ Requested /\ p \in PostType /\ PostOK(p, tab[p.tab])
  BY DEF WorkspacesInv, Requested
<1>3. p.who \in Accounts \cup {None}
  BY <1>2 DEF PostType
<1>4. Grown /\ Stores'
  BY <1>1, <1>2, <1>3 DEF Grown, Stores
<1>5. /\ q \in PostType /\ q.tab = p.tab /\ q.why = p.why /\ q.org = p.org /\ q.who = p.who /\ q.at = at
  BY <1>2, <1>10, <1>11 DEF PostType
<1>6. PostOK(q, tab[q.tab])'
  <2>1. q.at = "ok" => q.who \in users' /\ Has(q.who, q.org)'
    BY <1>1, <1>5, <1>11 DEF Has
  <2> QED
    BY <1>1, <1>2, <1>5, <2>1 DEF PostOK
<1>7. ASSUME q.why # "sync", NEW x \in P, x.tab = q.tab PROVE x.why = "sync"
  BY <1>2, <1>5, <1>7, <1>10 DEF Requested, Waiting
<1>8. \A x \in P : Keeps(tab[x.tab], tab'[x.tab])
  BY <1>1, Unchanged
<1>9. Requested'
  <2>1. N \in SUBSET PostType /\ P \in SUBSET posts /\ \A x, y \in N : x = y
    BY <1>5, <1>10
  <2>2. \A x \in N : /\ PostOK(x, tab[x.tab])'
                     /\ x.why # "sync" => \A y \in P : y.tab = x.tab => y.why = "sync"
    BY <1>6, <1>7, <1>10
  <2>3. \A x \in P : Keeps(tab[x.tab], tab'[x.tab]) \/ x.why = "sync"
    BY <1>8
  <2> QED
    BY <1>1, <1>2, <1>4, <2>1, <2>2, <2>3, RequestsOK
<1> QED
  BY <1>1, <1>4, <1>9, SameTabs

LEMMA ContinueInv ==
  ASSUME WorkspacesInv, NEW p \in posts, NEW ok \in BOOLEAN, ok => p.at = "ok", Continue(p, ok),
         posts' = posts \ {p}, UNCHANGED <<apiVars, session>>
  PROVE  WorkspacesInv'
<1>6. PICK t, r, s : t = p.tab /\ r = tab[t] /\ s = [r EXCEPT !.doing = Nothing]
  OBVIOUS
<1>1. p \in PostType /\ PostOK(p, r) /\ t \in Tabs
  BY <1>6 DEF WorkspacesInv, Requested, PostType
<1>2. session \in Accounts \cup {None} /\ session' \in Accounts \cup {None}
  BY DEF WorkspacesInv, Stores
<1>3. Grown /\ Stores /\ Stores'
  BY <1>2, SameUsers
<1>4. CASE p.why = "sync" \/ r.doing = Nothing
  <2>1. UNCHANGED tab
    BY <1>4, <1>6 DEF Continue
  <2>2. ASSUME NEW x \in posts' PROVE Keeps(tab[x.tab], tab'[x.tab]) \/ x.why = "sync"
    BY <2>1, Unchanged
  <2>3. posts' \in SUBSET posts /\ posts' = posts' \cup {} /\ {} \in SUBSET PostType
    OBVIOUS
  <2>4. Requested
    BY DEF WorkspacesInv
  <2>5. Requested'
    BY <1>3, <2>2, <2>3, <2>4, RequestsOK
  <2> QED
    BY <1>3, <2>1, <2>5, SameTabs
<1>5. CASE ~ (p.why = "sync" \/ r.doing = Nothing)
  <2>1. TabOK(r) /\ r # Blank /\ r.page # "blank"
    BY <1>1, <1>5, <1>6, TabIs, NotBlank
  <2>2. Nothing \in Doings
    BY DEF Doings
  <2>3. /\ TabOK(s) /\ s.page = r.page /\ s.listed = r.listed /\ s.mixed = r.mixed
    BY <1>6, <2>1, <2>2, DoingOK
  <2>4. ASSUME NEW x \in posts', x.tab = t PROVE x.why = "sync"
    BY <1>5, <1>6, <2>4 DEF WorkspacesInv, Requested, Waiting
  <2>5. ASSUME NEW z, Becomes(t, z) PROVE Requested'
    BY <1>1, <1>3, <2>4, <2>5, RequestsEnd
  <2>6. CASE ~ ok
    <3>1. Becomes(t, s)
      BY <1>5, <1>6, <2>6 DEF Continue
    <3>2. TabOK(s)'
      BY <2>3, SameUsers
    <3> QED
      BY <1>1, <1>3, <2>5, <3>1, <3>2, OneTabInv
  <2>7. CASE ok
    <3>10. PICK kind, refresh : /\ kind = IF s.page = "invite" THEN "load" ELSE "push"
                             /\ refresh = (p.why # "select")
      OBVIOUS
    <3>1. Becomes(t, Going(s, session, p.org, kind, refresh, p.who))
      BY <1>5, <1>6, <2>7, <3>10 DEF Continue
    <3>2. s \in Tab /\ Shows(s) /\ Lists(s)
      BY <2>3 DEF TabOK
    <3>3. p.who \in Accounts \cup {None} /\ p.org \in Workspace /\ p.org # Home /\ Has(p.who, p.org)
      BY <1>1, <2>7, WorkspacesAssumption DEF PostType, PostOK
    <3>4. s.page # "blank" /\ kind \in {"load", "refresh", "push"} /\ refresh \in BOOLEAN
      BY <2>1, <2>3, <3>10
    <3>5. kind # "refresh" /\ (kind = "load" <=> s.page \in {"blank", "invite"})
      BY <3>4, <3>10
    <3>6. ~ refresh => p.org \in s.listed \/ s.mixed
      BY <1>1, <2>1, <2>3, <3>10 DEF PostOK
    <3>7. Requested'
      BY <2>5, <3>1
    <3>8. /\ p.who # None /\ p.org # Home => Has(p.who, p.org)
          /\ p.org = Home => kind = "load"
          /\ kind = "refresh" => p.org = s.org /\ s.page = "workspace"
          /\ kind = "refresh" \/ Lists(s)
          /\ kind = "push" => refresh \/ p.org \in s.listed \/ s.mixed \/ s.listedLate \/ p.org = s.back
      BY <3>2, <3>3, <3>5, <3>6
    <3>9. p.org \in Workspace \cup {Home}
      BY <3>3
    <3> QED
      BY <1>1, <1>2, <3>1, <3>2, <3>3, <3>4, <3>5, <3>7, <3>8, <3>9, GoesOK
  <2> QED
    BY <2>6, <2>7
<1> QED
  BY <1>4, <1>5

LEMMA StoreInv ==
  ASSUME WorkspacesInv, NEW p \in posts, Store(p)
  PROVE  WorkspacesInv'
<1>1. PICK ok \in BOOLEAN : ok = (p.at = "ok")
  OBVIOUS
<1>2. Continue(p, ok) /\ posts' = posts \ {p} /\ UNCHANGED <<apiVars, session>>
  BY <1>1 DEF Store
<1> QED
  BY <1>1, <1>2, ContinueInv

LEMMA LosePostInv ==
  ASSUME WorkspacesInv, NEW p \in posts, LosePost(p)
  PROVE  WorkspacesInv'
<1>1. Continue(p, FALSE) /\ posts' = posts \ {p} /\ UNCHANGED <<apiVars, session>>
  BY DEF LosePost
<1> QED
  BY <1>1, ContinueInv

LEMMA WorkspacesInit == Init => WorkspacesInv
<1> SUFFICES ASSUME Init PROVE WorkspacesInv
  OBVIOUS
<1>1. Stores
  BY WorkspacesAssumption DEF Init, Stores
<1>2. Blank \in Tab /\ TabOK(Blank)
  BY BlankOK DEF TabOK
<1>3. tab \in [Tabs -> Tab] /\ \A t \in Tabs : TabOK(tab[t])
  BY <1>2 DEF Init
<1>4. Requested
  BY DEF Init, Requested
<1> QED
  BY <1>1, <1>3, <1>4 DEF WorkspacesInv

LEMMA WorkspacesNext == WorkspacesInv /\ [Next]_vars => WorkspacesInv'
<1> SUFFICES ASSUME WorkspacesInv, [Next]_vars PROVE WorkspacesInv'
  OBVIOUS
<1>1. ASSUME NEW t \in Tabs, TabStep(t) PROVE WorkspacesInv'
  BY <1>1, FindUserInv, CreateUserInv, RenderFailsInv, LandInv, NotFoundInv, ArriveInv, CreateForUserInv, AcceptInv,
     SyncFailsInv, RefuseInvitationInv DEF TabStep
<1>2. ASSUME NEW t \in Tabs, UserStep(t) PROVE WorkspacesInv'
  <2>1. ASSUME SubmitDialog(t) PROVE WorkspacesInv'
    BY <2>1, SendInv DEF SubmitDialog, HasShell
  <2>2. ASSUME PressAccept(t) PROVE WorkspacesInv'
    BY <2>2, SendInv DEF PressAccept
  <2> QED
    BY <1>2, <2>1, <2>2, VisitInv, OpenInvitationInv, SignInInv, SignOutInv, BackInv, SelectOrganizationInv DEF UserStep
<1>3. ASSUME NEW p \in posts, Validate(p) \/ Store(p) \/ LosePost(p) PROVE WorkspacesInv'
  BY <1>3, ValidateInv, StoreInv, LosePostInv
<1>4. CASE UNCHANGED vars
  <2>1. UNCHANGED <<apiVars, session, tab, posts>>
    BY <1>4 DEF vars
  <2>2. Grown /\ Stores'
    BY <2>1, SameUsers DEF WorkspacesInv, Stores
  <2>3. Requested
    BY DEF WorkspacesInv
  <2>4. Requested'
    BY <2>1, <2>3 DEF apiVars, Requested, PostOK, Has
  <2> QED
    BY <2>1, <2>2, <2>4, SameTabs
<1> QED
  BY <1>1, <1>2, <1>3, <1>4 DEF Next

\* Types, and what each tab shows, asks for and waits for.
THEOREM WorkspacesCorrect == Spec => []WorkspacesInv
  BY WorkspacesInit, WorkspacesNext, PTL DEF Spec

\* Nobody whom the program sent to a workspace is told that it is missing.
THEOREM SentWhereTheyBelong == Spec => []NobodyIsSentAstray
<1>1. WorkspacesInv => NobodyIsSentAstray
  BY DEF WorkspacesInv, TabOK, Shows, NobodyIsSentAstray
<1> QED
  BY <1>1, WorkspacesCorrect, PTL

\* The switcher of a settled tab lists the workspace that the tab shows, except
\* where the refresh of its list was given up for another navigation, or went on
\* for another account than the tab was loaded for (ShownIsListed).
THEOREM SwitcherListsTheShown == Spec => []ShownIsListed
<1>1. WorkspacesInv => ShownIsListed
  BY DEF WorkspacesInv, TabOK, Lists, ShownIsListed, Settled
<1> QED
  BY <1>1, WorkspacesCorrect, PTL

\* A visit that failed has left the User row that it needs.
THEOREM FailedVisitsLeaveAUser == Spec => []FailedVisitsCanBeRepeated
<1>1. WorkspacesInv => FailedVisitsCanBeRepeated
  BY DEF WorkspacesInv, TabOK, Shows, FailedVisitsCanBeRepeated
<1> QED
  BY <1>1, WorkspacesCorrect, PTL
-----------------------------------------------------------------------------
(* As long as nothing went wrong, the preference follows what is shown.      *)

\* A tab is about to come to a workspace.
Awaited == (\E p \in posts : p.why # "sync") \/ \E t \in Tabs : Sure(tab[t].going)

Latest(p) == \A q \in posts : q.nr <= p.nr

Follows ==
  /\ \A p \in posts : p.who # None => p.who = session
  /\ \A t \in Tabs : tab[t].going # Idle => session # None /\ tab[t].going.who = session
  /\ \A p \in posts : p.who # None /\ p.why # "sync" => tab[p.tab] # Blank
  /\ \/ Awaited
     \/ posts = {} /\ cookie = shown
     \/ \E p \in posts : p.org = shown /\ Latest(p)

FollowedInv ==
  /\ \A p, q \in posts : p.nr = q.nr => p = q
  /\ ~ flawed => Follows

LEMMA SureGrown ==
  ASSUME Stores, Grown, NEW g, Sure(g) PROVE Sure(g)'
  BY DEF Sure, Grown, Has, Stores

LEMMA SureKept ==
  ASSUME WorkspacesInv, Grown, NEW t \in Tabs, NEW s, Becomes(t, s), Sure(tab[t].going) => Sure(s.going)',
         \E u \in Tabs : Sure(tab[u].going)
  PROVE  \E u \in Tabs : Sure(tab[u].going)'
<1>1. PICK u \in Tabs : Sure(tab[u].going)
  OBVIOUS
<1>2. CASE u = t
  <2>1. tab'[t] = s
    BY DEF Becomes, WorkspacesInv
  <2>2. Sure(tab[t].going)'
    BY <1>1, <1>2, <2>1
  <2> QED
    BY <2>2
<1>3. CASE u # t
  <2>1. tab'[u] = tab[u]
    BY <1>3 DEF Becomes, WorkspacesInv
  <2>2. PICK g : g = tab[u].going
    OBVIOUS
  <2>3. Sure(g)'
    BY <1>1, <2>2, SureGrown DEF WorkspacesInv
  <2>4. Sure(tab[u].going)'
    BY <2>1, <2>2, <2>3
  <2> QED
    BY <2>4
<1> QED
  BY <1>2, <1>3

\* One tab changes, and nothing is sent or stored.
LEMMA FollowsOn ==
  ASSUME WorkspacesInv, Follows, Grown, NEW t \in Tabs, NEW s, Becomes(t, s),
         UNCHANGED <<session, cookie, posts, shown>>,
         Sure(tab[t].going) => Sure(s.going)',
         s.going # Idle => session # None /\ s.going.who = session,
         s # Blank \/ session = None
  PROVE  Follows'
<1>1. \A u \in Tabs : tab'[u] = IF u = t THEN s ELSE tab[u]
  BY DEF Becomes, WorkspacesInv
<1>2. \A p \in posts : p.tab \in Tabs
  BY DEF WorkspacesInv, Requested, PostType
<1>3. \A p \in posts' : p.who # None => p.who = session'
  BY DEF Follows
<1>4. \A u \in Tabs : tab'[u].going # Idle => session' # None /\ tab'[u].going.who = session'
  BY <1>1 DEF Follows
<1>5. \A p \in posts' : p.who # None /\ p.why # "sync" => tab'[p.tab] # Blank
  BY <1>1, <1>2 DEF Follows
<1>6. Awaited => Awaited'
  <2>1. CASE \E p \in posts : p.why # "sync"
    BY <2>1 DEF Awaited
  <2>2. CASE \E u \in Tabs : Sure(tab[u].going)
    BY <2>2, SureKept DEF Awaited
  <2> QED
    BY <2>1, <2>2 DEF Awaited
<1>7. \/ Awaited'
      \/ posts' = {} /\ cookie' = shown'
      \/ \E p \in posts' : p.org = shown' /\ Latest(p)'
  BY <1>6 DEF Follows, Latest
<1> QED
  BY <1>3, <1>4, <1>5, <1>7 DEF Follows

\* A navigation begins for somebody.
LEMMA Begins ==
  ASSUME NEW r \in Tab, NEW who \in Accounts, NEW to, NEW kind, NEW refresh \in BOOLEAN, NEW sentFor,
         NEW s, s = Going(r, who, to, kind, refresh, sentFor)
  PROVE  /\ s.going # Idle /\ s.going.who = who /\ s # Blank
         /\ s.going.to = to /\ s.going.kind = kind /\ s.going.saw = <<>>
         /\ \A c \in DOMAIN s.going.calls : s.going.calls[c] = "sent"
         /\ "organizations" \in DOMAIN s.going.calls
<1>1. who # None
  BY WorkspacesAssumption
<1>2. s.going = [to |-> to, kind |-> kind, who |-> who, saw |-> <<>>, sentFor |-> sentFor, knew |-> who \in users,
                 calls |-> [c \in Requests(kind) |-> "sent"],
                 refresh |-> refresh \/ (r.going # Idle /\ r.going.refresh)]
  BY <1>1 DEF Going, Tab
<1>3. s.going # Idle
  BY <1>2 DEF Idle
<1>4. s # Blank
  BY <1>3 DEF Blank
<1> QED
  BY <1>2, <1>3, <1>4 DEF Requests

LEMMA TellsFollows ==
  ASSUME WorkspacesInv, Follows, Grown, NEW t \in Tabs, NEW c, NEW x, NEW w, tab[t].going # Idle, Tells(t, c, x, w),
         UNCHANGED <<session, cookie, posts, shown>>
  PROVE  Follows'
<1>1. PICK r, g, h, s : r = tab[t] /\ g = r.going /\ h = Answer(g, c, x, w) /\ s = Told(r, c, x, w)
  OBVIOUS
<1>2. r \in Tab /\ g \in Nav /\ g # Idle /\ Stores
  BY <1>1, TabIs DEF WorkspacesInv
<1>3. Answers(g, c, x, w)' /\ (Sure(g) => x = "done") /\ Becomes(t, s)
  BY <1>1 DEF Tells
<1>4. c \in DOMAIN g.calls /\ x \in CallStates /\ w \in Seq(Workspace)
  BY <1>3 DEF Answers
<1>5. /\ h # Idle
      /\ h.to = g.to /\ h.kind = g.kind /\ h.who = g.who /\ h.saw = w
      /\ DOMAIN h.calls = DOMAIN g.calls /\ h.calls[c] = x
      /\ \A d \in DOMAIN g.calls \ {c} : h.calls[d] = g.calls[d]
  BY <1>1, <1>2, <1>4, CallFields
<1>6. s.going = h
  BY <1>1, <1>2 DEF Told, Tab
<1>7. s # Blank
  BY <1>5, <1>6 DEF Blank
<1>8. ASSUME Sure(g) PROVE Sure(h)'
  <2>1. Sure(g)' /\ x = "done"
    BY <1>2, <1>3, <1>8, SureGrown
  <2>2. \A d \in DOMAIN h.calls : h.calls[d] \in {"sent", "done"}
    BY <1>5, <2>1 DEF Sure
  <2>3. h.calls["organizations"] = "done" => h.to \in Range(h.saw)
    <3>1. CASE c = "organizations"
      <4>1. w = members'[g.who]
        BY <1>3, <2>1, <3>1 DEF Answers
      <4> QED
        BY <1>5, <2>1, <4>1 DEF Sure, Has
    <3>2. CASE c # "organizations"
      <4>1. w = g.saw
        BY <1>3, <3>2 DEF Answers
      <4>2. "organizations" \in DOMAIN g.calls \ {c}
        BY <1>2, <3>2, NavFields
      <4> QED
        BY <1>5, <2>1, <4>1, <4>2 DEF Sure
    <3> QED
      BY <3>1, <3>2
  <2> QED
    BY <1>5, <2>1, <2>2, <2>3 DEF Sure
<1>9. session # None /\ g.who = session
  BY <1>1, <1>2 DEF Follows
<1> QED
  BY <1>1, <1>3, <1>5, <1>6, <1>7, <1>8, <1>9, FollowsOn

LEMMA FindUserFollows ==
  ASSUME WorkspacesInv, Follows, NEW t \in Tabs, NEW c, FindUser(t, c)
  PROVE  Follows'
<1>1. UNCHANGED <<session, cookie, posts, shown>>
  BY DEF FindUser, histVars
<1> QED
  BY <1>1, FindUserTells, TellsFollows

LEMMA CreateUserFollows ==
  ASSUME WorkspacesInv, Follows, NEW t \in Tabs, NEW c, CreateUser(t, c)
  PROVE  Follows'
<1>1. UNCHANGED <<session, cookie, posts, shown>>
  BY DEF CreateUser, histVars
<1> QED
  BY <1>1, CreateUserTells, TellsFollows

\* A navigation that ends nowhere was not going to arrive.
LEMMA ShowsFollows ==
  ASSUME WorkspacesInv, Follows, NEW t \in Tabs, NEW page, page \notin {"blank", "workspace"},
         tab[t].going # Idle, ~ Sure(tab[t].going), Becomes(t, Show(t, page, None)),
         UNCHANGED <<apiVars, session, cookie, posts, shown>>
  PROVE  Follows'
<1>1. PICK s : s = Show(t, page, None)
  OBVIOUS
<1>2. s.going = Idle /\ s.page = page
  BY <1>1, TabIs DEF Show, Tab
<1>3. s # Blank
  BY <1>2 DEF Blank
<1>4. Grown
  BY SameUsers
<1> QED
  BY <1>1, <1>2, <1>3, <1>4, FollowsOn

LEMMA RenderFailsFollows ==
  ASSUME WorkspacesInv, Follows, NEW t \in Tabs, RenderFails(t)
  PROVE  Follows'
<1>1. UNCHANGED <<apiVars, session, cookie, posts, shown>> /\ Becomes(t, Show(t, "error", None))
  BY DEF RenderFails, histVars
<1>2. tab[t].going # Idle /\ ~ Sure(tab[t].going)
  BY DEF RenderFails, Loading, Sure
<1> QED
  BY <1>1, <1>2, ShowsFollows

LEMMA NotFoundFollows ==
  ASSUME WorkspacesInv, Follows, NEW t \in Tabs, NotFound(t)
  PROVE  Follows'
<1>1. UNCHANGED <<apiVars, session, cookie, posts, shown>> /\ Becomes(t, Show(t, "missing", None)) /\ Loaded(t)
  BY DEF NotFound, histVars
<1>2. tab[t].going # Idle /\ ~ Sure(tab[t].going)
  BY <1>1, LoadedIs DEF NotFound, Sure
<1> QED
  BY <1>1, <1>2, ShowsFollows

LEMMA LandFollows ==
  ASSUME WorkspacesInv, Follows, NEW t \in Tabs, Land(t)
  PROVE  Follows'
<1>1. UNCHANGED <<apiVars, session, cookie, posts, shown>> /\ Loaded(t) /\ tab[t].going.to = Home
  BY DEF Land, histVars
<1>2. tab[t].going # Idle /\ ~ Sure(tab[t].going) /\ tab[t].going.refresh \in BOOLEAN /\ tab[t] \in Tab
  BY <1>1, LoadedIs, TabIs DEF Sure
<1>3. CASE tab[t].going.saw = <<>>
  <2>1. Becomes(t, Show(t, "empty", None))
    BY <1>3 DEF Land
  <2> QED
    BY <1>1, <1>2, <2>1, ShowsFollows
<1>4. CASE tab[t].going.saw # <<>>
  <2>1. PICK r, g, s : /\ r = [tab[t] EXCEPT !.going = Idle] /\ g = tab[t].going
                       /\ s = Going(r, session, Landing(g.saw), "load", g.refresh, g.who)
    OBVIOUS
  <2>2. session \in Accounts
    BY <1>1, <1>2 DEF Follows, WorkspacesInv, Stores
  <2>3. r \in Tab /\ Becomes(t, s)
    BY <1>2, <1>4, <2>1 DEF Land, Tab
  <2>4. s.going # Idle /\ s.going.who = session /\ s # Blank
    <3>1. session # None
      BY <2>2, WorkspacesAssumption
    <3>2. s.going # Idle /\ s.going.who = session
      BY <2>1, <2>3, <3>1 DEF Going, Idle, Tab
    <3> QED
      BY <3>2 DEF Blank
  <2>5. Grown /\ session # None
    BY <1>1, <2>2, SameUsers, WorkspacesAssumption
  <2> QED
    BY <1>1, <1>2, <2>3, <2>4, <2>5, FollowsOn
<1> QED
  BY <1>3, <1>4

LEMMA BackFollows ==
  ASSUME WorkspacesInv, Follows, NEW t \in Tabs, Back(t), ~ flawed'
  PROVE  Follows'
<1>1. PICK r, s : r = tab[t] /\ s = Going(r, session, r.back, "push", FALSE, None)
  OBVIOUS
<1>2. UNCHANGED <<apiVars, session, cookie, posts, shown>> /\ Becomes(t, s) /\ r.going = Idle
  BY <1>1 DEF Back
<1>3. Grown /\ r \in Tab /\ ~ Sure(r.going)
  BY <1>1, <1>2, SameUsers, TabIs DEF Sure
<1>4. CASE session = None
  <2>1. s = Blank /\ Blank.going = Idle
    BY <1>1, <1>4 DEF Going, Blank
  <2> QED
    BY <1>1, <1>2, <1>3, <1>4, <2>1, FollowsOn
<1>5. CASE session # None
  <2>1. s.going # Idle /\ s.going.who = session
    BY <1>1, <1>3, <1>5 DEF Going, Idle, Tab
  <2>2. s # Blank
    BY <2>1 DEF Blank
  <2> QED
    BY <1>1, <1>2, <1>3, <1>5, <2>1, <2>2, FollowsOn
<1> QED
  BY <1>4, <1>5

\* What a tab does without going anywhere.
LEMMA DoesFollows ==
  ASSUME WorkspacesInv, Follows, Grown, NEW t \in Tabs, NEW d, tab[t].page # "blank",
         Becomes(t, [tab[t] EXCEPT !.doing = d]), UNCHANGED <<session, cookie, posts, shown>>
  PROVE  Follows'
<1>1. PICK r, s : r = tab[t] /\ s = [r EXCEPT !.doing = d]
  OBVIOUS
<1>2. s.going = r.going /\ s.page = r.page
  BY <1>1, TabIs DEF Tab
<1>3. s # Blank
  BY <1>1, <1>2 DEF Blank
<1>4. Sure(r.going) => Sure(s.going)'
  <2>1. PICK g : g = r.going
    OBVIOUS
  <2>2. Sure(g) => Sure(g)'
    BY SureGrown DEF WorkspacesInv
  <2> QED
    BY <1>2, <2>1, <2>2
<1>5. s.going # Idle => session # None /\ s.going.who = session
  BY <1>1, <1>2 DEF Follows
<1>6. Becomes(t, s)
  BY <1>1
<1> QED
  BY <1>1, <1>3, <1>4, <1>5, <1>6, FollowsOn

\* A page is left when nothing is under way in it.
LEMMA LeaveFollows ==
  ASSUME WorkspacesInv, Follows, UNCHANGED <<apiVars, session, cookie, shown>>, NEW t \in Tabs, Leave(t), ~ flawed',
         NEW s, Becomes(t, s), s # Blank, s.going # Idle => session # None /\ s.going.who = session
  PROVE  Follows'
<1>1. posts' = posts /\ tab[t].going = Idle
  BY DEF Leave
<1>2. Grown /\ ~ Sure(tab[t].going)
  BY <1>1, SameUsers DEF Sure
<1> QED
  BY <1>1, <1>2, FollowsOn

LEMMA VisitFollows ==
  ASSUME WorkspacesInv, Follows, NEW t \in Tabs, NEW to, Visit(t, to), ~ flawed'
  PROVE  Follows'
<1>1. PICK s : s = Going(Blank, session, to, "load", FALSE, None)
  OBVIOUS
<1>2. UNCHANGED <<apiVars, session, cookie, shown>> /\ Leave(t) /\ Becomes(t, s) /\ session # None
  BY <1>1 DEF Visit
<1>3. s.going # Idle /\ s.going.who = session
  <2>1. Blank \in Tab
    BY BlankOK DEF TabOK
  <2> QED
    BY <1>1, <1>2, <2>1 DEF Going, Idle, Tab
<1>4. s # Blank
  BY <1>3 DEF Blank
<1> QED
  BY <1>2, <1>3, <1>4, LeaveFollows

LEMMA OpenInvitationFollows ==
  ASSUME WorkspacesInv, Follows, NEW t \in Tabs, NEW a, OpenInvitation(t, a), ~ flawed'
  PROVE  Follows'
<1>1. PICK s : s = [Blank EXCEPT !.page = "invite", !.account = a]
  OBVIOUS
<1>2. UNCHANGED <<apiVars, session, cookie, shown>> /\ Leave(t) /\ Becomes(t, s)
  BY <1>1 DEF OpenInvitation
<1>3. s.going = Idle /\ s.page = "invite" /\ s # Blank
  BY <1>1 DEF Blank
<1> QED
  BY <1>2, <1>3, LeaveFollows

\* The others go on waiting for what they waited for, and one tab begins anew.
LEMMA SignInFollows ==
  ASSUME WorkspacesInv, Follows, NEW t \in Tabs, NEW a \in Accounts, SignIn(t, a), ~ flawed'
  PROVE  Follows'
<1>1. PICK s : /\ Becomes(t, s)
               /\ \/ \E to : s = Going(Blank, a, to, "load", FALSE, None)
                  \/ \E b : s = [Blank EXCEPT !.page = "invite", !.account = b]
  BY DEF SignIn
<1>2. /\ UNCHANGED <<apiVars, cookie, shown>> /\ posts' = posts /\ Becomes(t, s) /\ session = None /\ session' = a
      /\ tab[t].going = Idle
  BY <1>1 DEF SignIn, Leave
<1>3. (s.going # Idle => s.going.who = a) /\ a # None
  <2>1. Blank \in Tab /\ a # None
    BY BlankOK, WorkspacesAssumption DEF TabOK
  <2>2. ASSUME NEW to, s = Going(Blank, a, to, "load", FALSE, None) PROVE s.going.who = a
    BY <2>1, <2>2 DEF Going, Idle, Tab
  <2>3. ASSUME NEW b, s = [Blank EXCEPT !.page = "invite", !.account = b] PROVE s.going = Idle
    BY <2>3 DEF Blank
  <2> QED
    BY <1>1, <2>1, <2>2, <2>3
<1>4. \A u \in Tabs : tab'[u] = IF u = t THEN s ELSE tab[u]
  BY <1>2 DEF Becomes, WorkspacesInv
<1>5. \A p \in posts : p.who = None
  BY <1>2 DEF Follows
<1>6. \A u \in Tabs : tab[u].going = Idle
  BY <1>2 DEF Follows
<1>7. \A p \in posts' : p.who # None => p.who = session'
  BY <1>2, <1>5
<1>8. \A u \in Tabs : tab'[u].going # Idle => session' # None /\ tab'[u].going.who = session'
  BY <1>2, <1>3, <1>4, <1>6
<1>9. \A p \in posts' : p.who # None /\ p.why # "sync" => tab'[p.tab] # Blank
  BY <1>2, <1>5
<1>10. \A u \in Tabs : ~ Sure(tab[u].going)
  BY <1>6 DEF Sure
<1>11. \/ Awaited'
       \/ posts' = {} /\ cookie' = shown'
       \/ \E p \in posts' : p.org = shown' /\ Latest(p)'
  BY <1>2, <1>10 DEF Follows, Awaited, Latest
<1> QED
  BY <1>7, <1>8, <1>9, <1>11 DEF Follows

\* Nothing is under way.
LEMMA SignOutFollows ==
  ASSUME WorkspacesInv, Follows, NEW t \in Tabs, SignOut(t), ~ flawed'
  PROVE  Follows'
<1>1. /\ posts = {} /\ posts' = {} /\ UNCHANGED <<cookie, shown>> /\ Becomes(t, Blank)
      /\ \A u \in Tabs : tab[u].going = Idle
  BY DEF SignOut, Abandoned
<1>2. \A u \in Tabs : tab'[u].going = Idle
  BY <1>1 DEF Becomes, WorkspacesInv, Blank
<1>3. ~ Awaited
  BY <1>1 DEF Awaited, Sure
<1>4. cookie' = shown'
  BY <1>1, <1>3 DEF Follows
<1> QED
  BY <1>1, <1>2, <1>4 DEF Follows

LEMMA SubmitDialogFollows ==
  ASSUME WorkspacesInv, Follows, NEW t \in Tabs, SubmitDialog(t)
  PROVE  Follows'
<1>1. /\ tab[t].page # "blank" /\ UNCHANGED <<apiVars, session, cookie, posts, shown>>
      /\ Becomes(t, [tab[t] EXCEPT !.doing = [what |-> "found", who |-> session, knew |-> session \in users]])
  BY DEF SubmitDialog, Send, HasShell, histVars
<1> QED
  BY <1>1, SameUsers, DoesFollows

LEMMA PressAcceptFollows ==
  ASSUME WorkspacesInv, Follows, NEW t \in Tabs, PressAccept(t)
  PROVE  Follows'
<1>1. /\ tab[t].page # "blank" /\ UNCHANGED <<apiVars, session, cookie, posts, shown>>
      /\ Becomes(t, [tab[t] EXCEPT !.doing = [what |-> "join", who |-> session, knew |-> session \in users]])
  BY DEF PressAccept, Send, histVars
<1> QED
  BY <1>1, SameUsers, DoesFollows

LEMMA SyncFailsFollows ==
  ASSUME WorkspacesInv, Follows, NEW t \in Tabs, SyncFails(t)
  PROVE  Follows'
<1>1. PICK what : Asked(t, what)
  BY DEF SyncFails
<1>2. UNCHANGED <<apiVars, session, cookie, posts, shown>> /\ Becomes(t, [tab[t] EXCEPT !.doing = Nothing])
  BY DEF SyncFails, histVars
<1>3. tab[t].page # "blank"
  BY <1>1, AskedIs
<1> QED
  BY <1>2, <1>3, SameUsers, DoesFollows

LEMMA RefuseInvitationFollows ==
  ASSUME WorkspacesInv, Follows, NEW t \in Tabs, RefuseInvitation(t)
  PROVE  Follows'
<1>1. /\ Asked(t, "join") /\ UNCHANGED <<members, session, cookie, posts, shown>>
      /\ Becomes(t, [tab[t] EXCEPT !.doing = Nothing]) /\ users \subseteq users'
  BY DEF RefuseInvitation, histVars
<1>2. tab[t].page # "blank"
  BY <1>1, AskedIs
<1>3. Grown
  BY <1>1 DEF Grown
<1> QED
  BY <1>1, <1>2, <1>3, DoesFollows

\* A request is sent that a tab waits for.
LEMMA SentFollows ==
  ASSUME WorkspacesInv, Follows, NEW t \in Tabs, NEW org, NEW why, why # "sync", NEW d, tab[t].page # "blank",
         Becomes(t, [tab[t] EXCEPT !.doing = d]), NEW known, posts' = Post(t, org, why, known), UNCHANGED session
  PROVE  Follows'
<1>1. PICK r, s : r = tab[t] /\ s = [r EXCEPT !.doing = d]
  OBVIOUS
<1>2. s.going = r.going /\ s.page = r.page
  BY <1>1, TabIs DEF Tab
<1>3. s # Blank
  BY <1>1, <1>2 DEF Blank
<1>4. \A u \in Tabs : tab'[u] = IF u = t THEN s ELSE tab[u]
  BY <1>1 DEF Becomes, WorkspacesInv
<1>5. PICK p : p = [nr |-> Number, tab |-> t, org |-> org, why |-> why, who |-> session,
                    knew |-> session \in known, at |-> "sent"]
  OBVIOUS
<1>6. posts' = posts \cup {p} /\ p.tab = t /\ p.why = why /\ p.who = session
  BY <1>5 DEF Post
<1>7. \A q \in posts : q.tab \in Tabs
  BY DEF WorkspacesInv, Requested, PostType
<1>8. \A q \in posts' : q.who # None => q.who = session'
  BY <1>6 DEF Follows
<1>9. \A u \in Tabs : tab'[u].going # Idle => session' # None /\ tab'[u].going.who = session'
  <2>1. \A u \in Tabs : tab[u].going # Idle => session # None /\ tab[u].going.who = session
    BY DEF Follows
  <2>2. \A u \in Tabs : tab'[u].going = tab[u].going
    BY <1>1, <1>2, <1>4
  <2> QED
    BY <2>1, <2>2
<1>10. \A q \in posts' : q.who # None /\ q.why # "sync" => tab'[q.tab] # Blank
  BY <1>3, <1>4, <1>6, <1>7 DEF Follows
<1>11. Awaited'
  BY <1>6 DEF Awaited
<1> QED
  BY <1>8, <1>9, <1>10, <1>11 DEF Follows

LEMMA SelectOrganizationFollows ==
  ASSUME WorkspacesInv, Follows, NEW t \in Tabs, NEW o, SelectOrganization(t, o)
  PROVE  Follows'
<1>1. /\ tab[t].page # "blank" /\ UNCHANGED session /\ posts' = Post(t, o, "select", users)
      /\ Becomes(t, [tab[t] EXCEPT !.doing = [what |-> "select"]])
  BY DEF SelectOrganization, HasShell
<1> QED
  BY <1>1, SentFollows

LEMMA ProceedFollows ==
  ASSUME WorkspacesInv, Follows, NEW t \in Tabs, NEW org, NEW what, Asked(t, what), Proceed(t, org), ~ flawed',
         UNCHANGED session
  PROVE  Follows'
<1>1. tab[t].doing.what \in {"found", "join"} /\ tab[t].page # "blank"
  BY AskedIs
<1>2. PICK d : d = [what |-> tab[t].doing.what]
  OBVIOUS
<1>3. posts' = Post(t, org, tab[t].doing.what, users') /\ Becomes(t, [tab[t] EXCEPT !.doing = d])
  BY <1>2 DEF Proceed
<1> QED
  BY <1>1, <1>3, SentFollows

LEMMA CreateForUserFollows ==
  ASSUME WorkspacesInv, Follows, NEW t \in Tabs, NEW org, CreateForUser(t, org), ~ flawed'
  PROVE  Follows'
<1>1. Asked(t, "found") /\ Proceed(t, org) /\ UNCHANGED session
  BY DEF CreateForUser
<1> QED
  BY <1>1, ProceedFollows

LEMMA AcceptFollows ==
  ASSUME WorkspacesInv, Follows, NEW t \in Tabs, NEW org, Accept(t, org), ~ flawed'
  PROVE  Follows'
<1>1. Asked(t, "join") /\ Proceed(t, org) /\ UNCHANGED session
  BY DEF Accept
<1> QED
  BY <1>1, ProceedFollows

LEMMA ArriveFollows ==
  ASSUME WorkspacesInv, Follows, NEW t \in Tabs, Arrive(t)
  PROVE  Follows'
<1>1. PICK g, w : g = tab[t].going /\ w = Show(t, "workspace", g.to)
  OBVIOUS
<1>2. UNCHANGED <<apiVars, session, cookie>> /\ Loaded(t)
  BY DEF Arrive
<1>3. g # Idle /\ g.refresh \in BOOLEAN /\ tab[t] \in Tab
  BY <1>1, <1>2, LoadedIs, TabIs
<1>4. session # None
  BY <1>1, <1>3 DEF Follows
<1>5. w.going = Idle /\ w.page = "workspace"
  BY <1>1, <1>3 DEF Show, Tab
<1>6. PICK s : s = IF g.refresh THEN Going(w, session, g.to, "refresh", FALSE, g.sentFor) ELSE w
  OBVIOUS
<1>7. Becomes(t, s)
  BY <1>1, <1>6 DEF Arrive
<1>8. (s.going # Idle => s.going.who = session) /\ s # Blank
  <2>1. s.page = "workspace" /\ (s.going # Idle => s.going.who = session)
    <3>1. CASE g.refresh
      <4>1. DOMAIN w = DOMAIN tab[t]
        BY <1>1 DEF Show
      <4>2. "page" \in DOMAIN w /\ "going" \in DOMAIN w
        BY <1>3, <4>1 DEF Tab
      <4>3. s = [w EXCEPT
          !.going = [to |-> g.to, kind |-> "refresh", who |-> session, saw |-> <<>>, sentFor |-> g.sentFor,
                     knew |-> session \in users, calls |-> [c \in Requests("refresh") |-> "sent"],
                     refresh |-> FALSE \/ (w.going # Idle /\ w.going.refresh)],
          !.listedLate = @ \/ (w.going # Idle /\ w.going.kind = "refresh")]
        BY <1>4, <1>6, <3>1 DEF Going
      <4> QED
        BY <1>5, <4>2, <4>3
    <3>2. CASE ~ g.refresh
      BY <1>5, <1>6, <3>2
    <3> QED
      BY <3>1, <3>2
  <2> QED
    BY <2>1 DEF Blank
<1>9. CASE g.kind = "refresh"
  <2>1. UNCHANGED <<posts, shown>> /\ ~ Sure(g)
    BY <1>1, <1>9 DEF Arrive, Sync, Sure
  <2>2. Grown
    BY <1>2, SameUsers
  <2> QED
    BY <1>1, <1>2, <1>4, <1>7, <1>8, <2>1, <2>2, FollowsOn
<1>10. CASE g.kind # "refresh"
  <2>1. PICK p : p = [nr |-> Number, tab |-> t, org |-> g.to, why |-> "sync", who |-> session,
                      knew |-> session \in users, at |-> "sent"]
    OBVIOUS
  <2>2. posts' = posts \cup {p} /\ shown' = g.to
    BY <1>1, <1>10, <2>1 DEF Arrive, Sync, Post
  <2>3. p.nr = Number /\ p.org = g.to /\ p.why = "sync" /\ p.who = session
    BY <2>1
  <2>4. \A u \in Tabs : tab'[u] = IF u = t THEN s ELSE tab[u]
    BY <1>7 DEF Becomes, WorkspacesInv
  <2>5. \A q \in posts : q.tab \in Tabs /\ q.nr \in Nat
    BY DEF WorkspacesInv, Requested, PostType
  <2>6. \A q \in posts' : q.who # None => q.who = session'
    BY <1>2, <2>2, <2>3 DEF Follows
  <2>7. \A u \in Tabs : tab'[u].going # Idle => session' # None /\ tab'[u].going.who = session'
    BY <1>2, <1>4, <1>8, <2>4 DEF Follows
  <2>8. \A q \in posts' : q.who # None /\ q.why # "sync" => tab'[q.tab] # Blank
    BY <1>8, <2>2, <2>3, <2>4, <2>5 DEF Follows
  <2>9. Number \in Nat /\ \A q \in posts : q.nr < Number
    BY NumberOK DEF WorkspacesInv
  <2>10. \A q \in posts' : q.nr <= p.nr
    BY <2>2, <2>3, <2>5, <2>9
  <2>11. \E q \in posts' : q.org = shown' /\ Latest(q)'
    BY <2>2, <2>3, <2>10 DEF Latest
  <2> QED
    BY <2>6, <2>7, <2>8, <2>11 DEF Follows
<1> QED
  BY <1>9, <1>10

LEMMA ValidateFollows ==
  ASSUME WorkspacesInv, Follows, NEW p \in posts, Validate(p)
  PROVE  Follows'
<1>1. PICK at : posts' = (posts \ {p}) \cup {[p EXCEPT !.at = at]}
  BY DEF Validate
<1>2. PICK q : q = [p EXCEPT !.at = at]
  OBVIOUS
<1>3. posts' = (posts \ {p}) \cup {q} /\ UNCHANGED <<members, session, cookie, tab, shown>> /\ users \subseteq users'
  BY <1>1, <1>2 DEF Validate, histVars
<1>4. p \in PostType /\ \A x \in posts : x.nr \in Nat
  BY DEF WorkspacesInv, Requested, PostType
<1>5. q.nr = p.nr /\ q.tab = p.tab /\ q.why = p.why /\ q.org = p.org /\ q.who = p.who
  BY <1>2, <1>4 DEF PostType
<1>6. \A x \in posts' : x.who # None => x.who = session'
  BY <1>3, <1>5 DEF Follows
<1>7. \A u \in Tabs : tab'[u].going # Idle => session' # None /\ tab'[u].going.who = session'
  BY <1>3 DEF Follows
<1>8. \A x \in posts' : x.who # None /\ x.why # "sync" => tab'[x.tab] # Blank
  BY <1>3, <1>5 DEF Follows
<1>9. Awaited => Awaited'
  <2>1. ASSUME NEW x \in posts, x.why # "sync" PROVE \E y \in posts' : y.why # "sync"
    BY <1>3, <1>5, <2>1
  <2>2. ASSUME NEW u \in Tabs, Sure(tab[u].going) PROVE Sure(tab[u].going)'
    <3>1. PICK g : g = tab[u].going
      OBVIOUS
    <3>2. Sure(g)'
      BY <1>3, <2>2, <3>1 DEF Sure, Has
    <3> QED
      BY <1>3, <3>1, <3>2
  <2> QED
    BY <2>1, <2>2 DEF Awaited
<1>10. ASSUME NEW x \in posts, x.org = shown, Latest(x) PROVE \E y \in posts' : y.org = shown' /\ Latest(y)'
  <2>1. PICK y : y = IF x = p THEN q ELSE x
    OBVIOUS
  <2>2. y \in posts' /\ y.org = x.org /\ y.nr = x.nr
    BY <1>3, <1>5, <2>1
  <2>3. \A z \in posts' : z.nr <= y.nr
    BY <1>3, <1>5, <1>10, <2>2 DEF Latest
  <2> QED
    BY <1>3, <1>10, <2>2, <2>3 DEF Latest
<1>11. posts # {}
  OBVIOUS
<1> QED
  BY <1>6, <1>7, <1>8, <1>9, <1>10, <1>11 DEF Follows

\* The oldest request is stored; a tab that waits for it goes on.
LEMMA StoreFollows ==
  ASSUME WorkspacesInv, Follows, \A p, q \in posts : p.nr = q.nr => p = q,
         NEW p \in posts, Store(p), ~ flawed'
  PROVE  Follows'
<1>1. /\ p.at = "ok" /\ posts' = posts \ {p} /\ cookie' = p.org /\ \A q \in posts : ~ (q.nr < p.nr)
      /\ UNCHANGED <<apiVars, session, shown>> /\ Continue(p, TRUE)
  <2>1. p.at \in {"sent", "ok", "refused"}
    BY DEF WorkspacesInv, Requested, PostType
  <2>2. /\ p.at # "sent" /\ p.at # "refused" /\ \A q \in posts : ~ (q.nr < p.nr)
        /\ posts' = posts \ {p} /\ UNCHANGED <<apiVars, session, shown>>
    BY DEF Store
  <2>3. p.at = "ok"
    BY <2>1, <2>2
  <2>4. cookie' = p.org /\ Continue(p, TRUE)
    BY <2>3 DEF Store, Continue
  <2> QED
    BY <2>2, <2>3, <2>4
<1>2. p \in PostType /\ PostOK(p, tab[p.tab]) /\ p.tab \in Tabs /\ \A q \in posts : q.tab \in Tabs /\ q.nr \in Nat
  BY DEF WorkspacesInv, Requested, PostType
<1>3. p.who \in users /\ Has(p.who, p.org) /\ p.org # Home
  BY <1>1, <1>2, WorkspacesAssumption DEF PostOK, PostType
<1>4. p.who = session /\ session \in Accounts /\ session # None
  BY <1>3, WorkspacesAssumption DEF Follows, WorkspacesInv, Stores
<1>5. Grown
  BY <1>1, SameUsers
<1>6. \A q \in posts' : q.who # None => q.who = session'
  BY <1>1 DEF Follows
<1>7. CASE p.why = "sync"
  <2>1. UNCHANGED tab
    BY <1>1, <1>7 DEF Continue
  <2>2. Awaited => Awaited'
    <3>1. ASSUME NEW q \in posts, q.why # "sync" PROVE \E y \in posts' : y.why # "sync"
      BY <1>1, <1>7, <3>1
    <3>2. ASSUME NEW u \in Tabs, Sure(tab[u].going) PROVE Sure(tab[u].going)'
      BY <1>1, <2>1, <3>2 DEF Sure, Has, apiVars
    <3> QED
      BY <3>1, <3>2 DEF Awaited
  <2>3. ASSUME NEW q \in posts, q.org = shown, Latest(q), q # p
        PROVE  \E y \in posts' : y.org = shown' /\ Latest(y)'
    BY <1>1, <2>3 DEF Latest
  <2>4. ASSUME p.org = shown, Latest(p) PROVE posts' = {} /\ cookie' = shown'
    <3>1. \A q \in posts : q.nr = p.nr
      BY <1>1, <1>2, <2>4 DEF Latest
    <3> QED
      BY <1>1, <2>4, <3>1
  <2>5. \/ Awaited'
        \/ posts' = {} /\ cookie' = shown'
        \/ \E q \in posts' : q.org = shown' /\ Latest(q)'
    BY <2>2, <2>3, <2>4 DEF Follows
  <2>6. \A u \in Tabs : tab'[u].going # Idle => session' # None /\ tab'[u].going.who = session'
    BY <1>1, <2>1 DEF Follows
  <2>7. \A q \in posts' : q.who # None /\ q.why # "sync" => tab'[q.tab] # Blank
    BY <1>1, <2>1 DEF Follows
  <2> QED
    BY <1>6, <2>5, <2>6, <2>7 DEF Follows
<1>8. CASE p.why # "sync"
  <2>1. PICK t, r, kind, refresh :
          /\ t = p.tab /\ r = [tab[t] EXCEPT !.doing = Nothing]
          /\ kind = IF r.page = "invite" THEN "load" ELSE "push"
          /\ refresh = (p.why # "select")
    OBVIOUS
  <2>2. tab[t] # Blank /\ tab[t].doing # Nothing /\ tab[t] \in Tab
    <3>1. tab[t] # Blank
      BY <1>3, <1>4, <1>8, <2>1 DEF Follows
    <3>2. tab[t].doing = [what |-> p.why]
      BY <1>2, <1>8, <2>1, <3>1 DEF PostOK
    <3>3. p.why # "nothing"
      BY <1>2 DEF PostType
    <3> QED
      BY <1>2, <2>1, <3>1, <3>2, <3>3, TabIs DEF Nothing
  <2>3. PICK s : s = Going(r, session, p.org, kind, refresh, p.who)
    OBVIOUS
  <2>4. Becomes(t, s)
    BY <1>1, <1>8, <2>1, <2>2, <2>3 DEF Continue
  <2>5. r \in Tab /\ kind # "refresh" /\ refresh \in BOOLEAN /\ t \in Tabs
    <3>1. Nothing \in Doings
      BY DEF Doings
    <3> QED
      BY <1>2, <2>1, <2>2, <3>1 DEF Tab
  <2>6. /\ s.going # Idle /\ s.going.who = session /\ s # Blank
        /\ s.going.to = p.org /\ s.going.kind = kind
        /\ \A c \in DOMAIN s.going.calls : s.going.calls[c] = "sent"
        /\ "organizations" \in DOMAIN s.going.calls
    BY <1>4, <2>3, <2>5, Begins
  <2>7. PICK g : g = s.going
    OBVIOUS
  <2>8. Sure(g)
    BY <1>3, <1>4, <2>5, <2>6, <2>7 DEF Sure
  <2>9. Sure(g)'
    BY <1>5, <2>8, SureGrown DEF WorkspacesInv
  <2>10. \A u \in Tabs : tab'[u] = IF u = t THEN s ELSE tab[u]
    BY <2>4 DEF Becomes, WorkspacesInv
  <2>11. Awaited'
    <3>1. tab'[t].going = g /\ t \in Tabs
      BY <2>5, <2>7, <2>10
    <3>2. Sure(tab[t].going)'
      BY <2>9, <3>1
    <3> QED
      BY <3>1, <3>2 DEF Awaited
  <2>12. \A u \in Tabs : tab'[u].going # Idle => session' # None /\ tab'[u].going.who = session'
    BY <1>1, <1>4, <2>6, <2>10 DEF Follows
  <2>13. \A q \in posts' : q.who # None /\ q.why # "sync" => tab'[q.tab] # Blank
    BY <1>1, <1>2, <2>6, <2>10 DEF Follows
  <2> QED
    BY <1>6, <2>11, <2>12, <2>13 DEF Follows
<1> QED
  BY <1>7, <1>8

\* No two requests have one number.
LEMMA NumbersKept ==
  ASSUME WorkspacesInv, Next, \A p, q \in posts : p.nr = q.nr => p = q
  PROVE  \A p, q \in posts' : p.nr = q.nr => p = q
<1>1. Number \in Nat /\ \A p \in posts : p.nr < Number /\ p.nr \in Nat
  BY NumberOK DEF WorkspacesInv, Requested, PostType
<1>2. ASSUME NEW t, NEW org, NEW why, NEW known, posts' = Post(t, org, why, known)
      PROVE  \A p, q \in posts' : p.nr = q.nr => p = q
  <2>1. PICK n : n.nr = Number /\ posts' = posts \cup {n}
    BY <1>2 DEF Post
  <2> QED
    BY <1>1, <2>1
<1>3. CASE posts' \subseteq posts
  BY <1>3
<1>4. ASSUME NEW p \in posts, Validate(p) PROVE \A x, y \in posts' : x.nr = y.nr => x = y
  <2>1. PICK q : q.nr = p.nr /\ posts' = (posts \ {p}) \cup {q}
    BY <1>4 DEF Validate, WorkspacesInv, Requested, PostType
  <2> QED
    BY <2>1
<1>5. ASSUME NEW t \in Tabs, TabStep(t)
      PROVE  posts' \subseteq posts \/ \E u, org, why, known : posts' = Post(u, org, why, known)
  <2>1. ASSUME NEW c, FindUser(t, c) \/ CreateUser(t, c) PROVE posts' = posts
    BY <2>1 DEF FindUser, CreateUser
  <2>2. ASSUME RenderFails(t) \/ Land(t) \/ NotFound(t) \/ SyncFails(t) \/ RefuseInvitation(t) PROVE posts' = posts
    BY <2>2 DEF RenderFails, Land, NotFound, SyncFails, RefuseInvitation
  <2>3. ASSUME Arrive(t) PROVE posts' = posts \/ \E u, org, why, known : posts' = Post(u, org, why, known)
    BY <2>3 DEF Arrive, Sync
  <2>4. ASSUME NEW o, CreateForUser(t, o) \/ Accept(t, o)
        PROVE  posts' = posts \/ \E u, org, why, known : posts' = Post(u, org, why, known)
    BY <2>4 DEF CreateForUser, Accept, Proceed
  <2> QED
    BY <1>5, <2>1, <2>2, <2>3, <2>4 DEF TabStep
<1>6. ASSUME NEW t \in Tabs, UserStep(t)
      PROVE  posts' \subseteq posts \/ \E u, org, why, known : posts' = Post(u, org, why, known)
  <2>1. ASSUME NEW to, Visit(t, to) PROVE posts' \subseteq posts
    BY <2>1 DEF Visit, Leave, Abandoned
  <2>2. ASSUME NEW a, OpenInvitation(t, a) \/ SignIn(t, a) PROVE posts' \subseteq posts
    BY <2>2 DEF OpenInvitation, SignIn, Leave, Abandoned
  <2>3. ASSUME SignOut(t) \/ Back(t) \/ SubmitDialog(t) \/ PressAccept(t) PROVE posts' \subseteq posts
    BY <2>3 DEF SignOut, Back, SubmitDialog, PressAccept, Send, Abandoned
  <2>4. ASSUME NEW o, SelectOrganization(t, o) PROVE posts' = Post(t, o, "select", users)
    BY <2>4 DEF SelectOrganization
  <2> QED
    BY <1>6, <2>1, <2>2, <2>3, <2>4 DEF UserStep
<1>7. ASSUME NEW p \in posts, Store(p) \/ LosePost(p) PROVE posts' \subseteq posts
  BY <1>7 DEF Store, LosePost
<1> QED
  BY <1>2, <1>3, <1>4, <1>5, <1>6, <1>7 DEF Next

LEMMA FollowedNext == WorkspacesInv /\ FollowedInv /\ [Next]_vars => FollowedInv'
<1> SUFFICES ASSUME WorkspacesInv, FollowedInv, [Next]_vars PROVE FollowedInv'
  OBVIOUS
<1>1. CASE UNCHANGED vars
  BY <1>1 DEF vars, histVars, apiVars, FollowedInv, Follows, Awaited, Sure, Has, Latest
<1>2. CASE Next
  <2>1. \A p, q \in posts' : p.nr = q.nr => p = q
    BY <1>2, NumbersKept DEF FollowedInv
  <2>2. ASSUME ~ flawed' PROVE Follows'
    <3>1. ~ flawed
      <4>1. ASSUME NEW t \in Tabs, TabStep(t) PROVE ~ flawed
        BY <2>2, <4>1 DEF TabStep, FindUser, CreateUser, RenderFails, Land, NotFound, Arrive, CreateForUser, Accept,
           Proceed, SyncFails, RefuseInvitation, histVars
      <4>2. ASSUME NEW t \in Tabs, UserStep(t) PROVE ~ flawed
        BY <2>2, <4>2 DEF UserStep, Visit, OpenInvitation, SignIn, SignOut, Back, SelectOrganization, SubmitDialog,
           PressAccept, Send, Leave, histVars
      <4>3. ASSUME NEW p \in posts, Validate(p) \/ Store(p) \/ LosePost(p) PROVE ~ flawed
        BY <2>2, <4>3 DEF Validate, Store, LosePost, histVars
      <4> QED
        BY <1>2, <4>1, <4>2, <4>3 DEF Next
    <3>2. Follows /\ \A p, q \in posts : p.nr = q.nr => p = q
      BY <3>1 DEF FollowedInv
    <3>3. ASSUME NEW t \in Tabs, TabStep(t) PROVE Follows'
      BY <2>2, <3>2, <3>3, FindUserFollows, CreateUserFollows, RenderFailsFollows, LandFollows, NotFoundFollows,
         ArriveFollows, CreateForUserFollows, AcceptFollows, SyncFailsFollows, RefuseInvitationFollows DEF TabStep
    <3>4. ASSUME NEW t \in Tabs, UserStep(t) PROVE Follows'
      BY <2>2, <3>2, <3>4, VisitFollows, OpenInvitationFollows, SignInFollows, SignOutFollows, BackFollows,
         SelectOrganizationFollows, SubmitDialogFollows, PressAcceptFollows DEF UserStep
    <3>5. ASSUME NEW p \in posts, Validate(p) \/ Store(p) PROVE Follows'
      BY <2>2, <3>2, <3>5, ValidateFollows, StoreFollows
    <3>6. ASSUME NEW p \in posts, LosePost(p) PROVE FALSE
      BY <2>2, <3>6 DEF LosePost
    <3> QED
      BY <1>2, <3>3, <3>4, <3>5, <3>6 DEF Next
  <2> QED
    BY <2>1, <2>2 DEF FollowedInv
<1> QED
  BY <1>1, <1>2

\* Once nothing is under way, the workspace that is remembered is the one that
\* some tab came to last, if every request to store it was answered, granted and
\* in its turn (RememberedIsShown).
THEOREM PreferenceFollows == Spec => []RememberedIsShown
<1>1. Init => FollowedInv
  <2> SUFFICES ASSUME Init PROVE FollowedInv
    OBVIOUS
  <2>1. posts = {} /\ cookie = shown /\ \A t \in Tabs : tab[t].going = Idle
    BY DEF Init, Blank
  <2> QED
    BY <2>1 DEF FollowedInv, Follows
<1>2. FollowedInv => RememberedIsShown
  BY DEF FollowedInv, Follows, Awaited, Sure, RememberedIsShown, Settled
<1> QED
  BY <1>1, <1>2, WorkspacesInit, WorkspacesNext, FollowedNext, PTL DEF Spec

=================================================================================
