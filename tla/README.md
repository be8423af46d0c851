# Lodgr in TLA+

Lodgr is a support desk: a Rust server (Axum, `src/backend`) over one SQLite file, and a
React client (`src/frontend`). This directory models the server's stateful core and the pages of
the client in TLA+, checks small instances with TLC and proves what matters most of several
components with TLAPS.

Contents: [the system](#the-system) · [the modules](#the-modules) ·
[how code becomes actions](#how-code-becomes-actions) · [components](#components) ·
[runs](#runs) · [disagreements found](#disagreements-found) · [fairness](#fairness) ·
[proofs](#proofs) · [what is left out](#what-is-left-out) · [plan](#plan)

## The system

The users are one or more *desk* accounts and their *clients*. All state is in SQLite
(WAL, foreign keys on, busy timeout of 5 s, a pool of ten connections), in two directories
(`uploads/<ticket>`, `exports/<client>`), in the rate limiters' memory and in the browser's
cookie.

| Component | State | Operations | What makes it hard |
|---|---|---|---|
| Sessions (`services/auth.rs`, `db/sessions.rs`) | table `sessions`: one row per refresh token, live or rotated | login, refresh (rotation and theft detection), logout, password change, revocations, daily cleanup | a handler acts on rows it read several statements ago; wipes happen in between; cap of ten |
| Lockout (`services/auth.rs`, `services/magic.rs`) | `failed_attempts`, `locked_until`; `security_log` tickets; the desk's recovery links | login, unlock by the desk, exchange of a link, the automatic ticket and mail | a counter written from a snapshot; check, then insert; a task spawned behind the answer |
| Magic links (`services/magic.rs`, `db/magic_links.rs`, `db/jwt_revocations.rs`) | `magic_links`, `jwt_revocations` | create by desk or self-service, exchange, revoke, cleanup, the deletions that cascade | delete and insert, find and mark are separate statements; order of jti row and answer |
| Tickets (`services/tickets.rs`, `services/messages.rs`, `routes/messages.rs`) | `tickets.status`, `thread_entries`, files in `uploads/` | create, acknowledge, pend, close, reopen, post with or without a file, delete | the transition is validated on an old reading; rows and files have no common transaction |
| Clients (`services/admin.rs`, `services/export.rs`, `tasks.rs`) | `users.deleted_at`, the tickets' `deleted_at`, `client_exports` | soft delete, restore, export, permanent delete, daily purge | recovery races the purge; the final export races new tickets; failures and restarts |
| Recurrence (`tasks.rs`, `db/invoices.rs`, `routes/invoices.rs`) | template rows with their next date | two hourly tasks, the desk's edits, deletion of the client | copy and move of the date are two statements; full-row updates; crashes; dates missed |
| Rate limiter (`rate_limit.rs`) | a map from address to bucket, in memory | `allow` | lazy refill, eviction, boundaries |
| Supervisor (`main.rs:418-445`) | back-off counter of each task | restart after exit or panic | crash loops |
| Invoices (`routes/invoices.rs`) | `invoices` | create (next number), update, delete, print | numbers by `MAX + 1`; last writer wins |
| Browser (`api/client.ts`, `auth/AuthContext.tsx`, `LoginPage`, `MagicLandingPage`, `SettingsPage`) | the access token in memory, the profile, the cookie tabs share | page load, silent refresh, retry after 401, sign-in, links, password, revocation, logout | two refreshes with one cookie look like theft; answers come late, in any order, or never |
| Ticket list (`TicketListPage`, `DraggableRow`, `Toast`) | pages of tickets in the query cache, the selection, timers and toasts | polls, filters, swipes, Undo, bulk acknowledge and close | a row is hidden before its ticket is closed; timers die with their row; a batch may fail halfway |
| Ticket page (`TicketDetailPage`) | composer, tab, pending mutations | reply, note, transitions, sign-in link, moving along the rail | one page serves many tickets; mutations outlive the ticket they were made on; offline |
| Invoices page (`InvoicesPage`) | the list as last read, two forms | create, edit, status, delete | whole rows are sent back; status buttons are never disabled |
| Clients page (`ClientsPage`, `MagicLinkModal`) | the roster as last read, a form, the link window | archive, restore, export, delete, link, Regenerate, admit | the window's button is not one of the page's mutations |
| Filing a ticket (`CreateTicketModal`) | the form's phase, two timers | choose a client, file, attach, stamp, jump to the ticket | the steps after the answer do not ask whether the form is still there |
| Health, notes, sub-clients, reports, e-mail, encryption, configuration | none that a later step reads, or one statement each | | |

How they interact: soft and permanent deletion (Clients) delete sessions, links, jti rows and
tickets of the others in one transaction; a permanent lock (Lockout) files a ticket or creates a
link; exchanging a link resets the lock; the recurring tasks file tickets and invoices for clients that
may be hidden or gone; restarts stop every handler and every task but lose only memory (limiter,
time of the next purge). The server's components share nothing but these rows, so each of their modules
carries the other components' operations that write its own tables (for instance `HardDelete` in
`Sessions`, `MagicLinks` and `Recurring`), translated from the same source.

The pages of the client share the query cache (one answer per list, whoever asked), the access token and the router: a
page that is left is unmounted, its forms are gone, and its requests go on. They reach the server only
through `api/*.ts`. `Browser` models what one page needs of `Sessions`; `Desk` composes the pages of
the desk that share the roster.

What makes each correct is the list of its properties under [components](#components). The hazards
these properties are for, each at its line, are in `PROJECT.json`.

## The modules

| Module | Models | Checked by | Proved in |
|---|---|---|---|
| `Sessions` | refresh-token sessions | `MCSessions` | `SessionsProofs` |
| `Lockout` | lock columns, automatic ticket, recovery link | `MCLockout` | `LockoutProofs` |
| `MagicLinks` | links, exchanges, revocable tokens | `MCMagicLinks` | `MagicLinksProofs` |
| `Tickets` | status machine, messages, attachments | `MCTickets` | `TicketsProofs` |
| `Clients` | deletion, recovery, export, purge | `MCClients` | `ClientsProofs` |
| `Recurring` | hourly tasks, templates, supervisor's restarts | `MCRecurring` | `ClockProofs` |
| `TokenBucket` | abstract: buckets that fill by themselves | | |
| `RateLimiter` | lazy map with eviction; implements `TokenBucket` | `MCRateLimiter` | `ClockProofs` |
| `Browser` | tabs, access tokens, the shared cookie, the refresh lock | `MCBrowser` | `SessionsProofs` |
| `Queue` | the ticket list: polls, swipes, toasts, the bulk bar | `MCQueue` | `DeskProofs` |
| `TicketPage` | the composer and the buttons of one ticket after another | `MCTicketPage` | `TicketPageProofs` |
| `Pages` | what the desk's pages share: page on screen, clients, roster | `MCDesk` | |
| `Invoices`, `Roster`, `Filing` | the pages of invoices and clients, the form that files a ticket | `MCDesk` | `DeskProofs` |
| `Desk` | their composition: navigation, and the jump to a filed ticket | `MCDesk` | `DeskProofs` |

An `MC` module adds definitions of constants and the symmetry set to the module it extends and
nothing else. No module that is proved about, or is meant to be, uses a `RECURSIVE` operator.

## How code becomes actions

On the server:

* **A step is a statement.** sqlx runs each query on `&pool` as a transaction of its own, so an
  action is one statement with the Rust code around it up to the next one. What a handler
  still holds from earlier reads is in `req[h]` (in `Clients` and `Recurring` also `tasks[a]` and
  `task[k]`). A `pool.begin()` block is a single action: it commits whole or not at all. So is
  `allow`, whose mutex is held throughout.
* **Any handler may stop** between two steps: an error, a cancelled request, a crash (`Abort`,
  `Crash`, `Fails`, `Restart`). A failing transaction changes nothing and is the same as `Abort`.
* **Reads that only guard** and writes nobody reads back (access checks, logging, mails, titles) are
  left out or merged into the neighbouring step.
* **Time** is a counter, advanced by `Tick` at any moment; a constant such as `TTL` is its number of
  ticks. `Tick` stops at `MaxTime` (`MaxInstant` of the limiter); in `Clients` a tick is a day and waits for the day's purge
  to finish, which in the code takes minutes.
In the browser JavaScript runs to completion, so:

* **A step is a continuation**: an event handler up to its first `await`, or what runs when an answer or a timer
  comes. Between two steps anything may happen: clicks, other answers, other people, the recurring task.
* **A request is a record** in `net`, `calls`, `invCalls`, `rosterCalls` or `filings`: sent, done by the server, answered. Each of the three is a step,
  so answers come in any order; a request may fail before the server acts or its answer be lost after (`Lose`,
  `CallFails`, `InvoiceFails`, `RosterFails`, `FilingFails`).
* **Mutations are TanStack Query's** (`query-core` 5): never retried; a pending mutation the page still observes runs with
  the options of the latest render; options' callbacks run even when the page is gone; offline it is held back.
  `isPending` is `Pending`, `AnyPending`, `Busy`: what a button waits for.
* **A query** may be answered at any time between its polls; invalidating it drops an answer under way and asks again. A list that is read and shown in one
  step (`ReadRoster`, `ReadInvoices`) stands for an earlier, still unanswered poll as well, because acting on an old list is acting before the next read.
* **The server** is reduced to what its answers depend on, and translated from the same Rust functions as the
  server's own modules.
* **A form** is the number of its opening and what its request depends on; typing is a step only where
  something can overtake it.

Everywhere:

* **Ids** are used once: a row is `none` before its insert and `gone` (`deleted`) after its deletion.
* **History variables** (`hist`, `raced`, `late`, `stale`, `stray`, `unseen`, `crossed`, `undone`, ...) are read by no guard. They record
  where a row came from and whether a handler acted on an old reading, and let the
  properties say exactly *which* interleavings may break the simple rule: "A unless the request had read
  the row before B" is a statement about the code, where plain "A" would be false.

Every name follows the source where it can; `map` in `PROJECT.json` gives the lines of each definition.

## Components

### Sessions

A token's row is `none`, `live` (`revoked_at` NULL), `rotated` or `deleted`. `RefreshFind`,
`RefreshUser`, `RefreshRevoke` and `RefreshCreate` are the four statements of `refresh`; `Wipe` is what
`RefreshFind` leads to on a rotated token (theft) or a deleted user. `CreateCapped` is the transaction
that evicts the oldest live rows and inserts. `LoginFind`/`IssueTokens`, `ChangePassword...`, `LogoutFind`
and `RevokeSessionFind`/`Drop` are the other handlers. `AdminRevoke`, `SoftDelete`, `HardDelete`,
`Restore` and `Cleanup` write the table from outside. The password itself and `replaced_by` are not state:
no control reads them. The desk is a user to whom the admin actions happen not to be applied.

* `SessionCap` – never more than `MaxSessions` live rows per user, however requests interleave.
* `RotationRetiresParent` – a token that has a successor is never live again.
* `OnlyOverlapSurvivesWipe` – after a wipe, only a handler that had read its row before can carry a
  session across it.
* `RotatedRowsRetained` – neither cleanup nor eviction removes an unexpired rotated row, so replay is still
  seen as theft. It needs `Retention >= TTL`, an assumption the source states in a comment and does
  not enforce.

### Lockout

`LoginFind` reads the row; `LoginSucceed` and `LoginFail` write back from that snapshot; the reactions
follow as steps of their own: `CheckTicket`/`CreateTicket` for a client, `CheckLink`/`ClearLinks`/`CreateLink` for the desk (a
spawned task in the code, under the same handler here). `Exchange...`, `UnlockClient` and `DeleteTicket` are the
others. `SoftDelete` hides a client's tickets, which the check for a recent one does not see, and `Restore` brings them back; the wrong
passwords of a client who is soft-deleted count all the same, the correct one ends the login (`Abort`). SMTP is taken as configured.
`security_log` tickets filed by hand, which would only suppress automatic ones, are left out.

* `LockMatchesCount` – both columns agree in every interleaving of snapshots (`TypeOK` adds that the counter stays
  below the threshold, though no query bounds it).
* `LockOutlivesLogins` – nobody who found an account permanently locked unlocks it with a password.
* `OneTicketUnlessUnseen` – of two automatic tickets within the window, both open, one could not be seen when the other was filed: their
  checks overlapped, or the client was deleted at the time and restored since.
* `DeskHasRecoveryLink` – a permanently locked desk has its link or is about to, unless a handler was cut off.

### Magic links

`DeskAsks`/`RequestFind`/`RequestThrottle` begin a creation; `CreateFind`, `ClearLinks` and `InsertLink` are the
statements of `create_magic_link`. `ExchangeFind`, `ExchangeMark`, `ExchangeUser`, `ExchangeInsert` and
`ExchangeAnswer` are an exchange; a token counts as *out* only with the last. `RevokeForUser`, `SoftDelete`,
`Restore`, `HardDelete`, `DeleteTicket` and `Cleanup` interfere. `References` is the schema's foreign keys.

* `OneLinkUnlessRaced`, `OneTokenUnlessRaced` – one unused link per scope, one token per link, but for overlapping requests.
* `TokenHonoured` – a token that was answered has its jti row until it expires or is revoked.
* `NoOrphans` – no link outlives its user or ticket, no accepted token its user, even when created during the deletion.

The 60 seconds of leeway that the JWT library grants beyond `exp`, in which the cleanup may already have removed the
row, are below the granularity of a tick.

### Tickets

`TransitionFind` reads and validates, `TransitionWrite` writes unconditionally; `PostFind`, `PostUpload`,
`PostRead`, `PostReopen` and `PostInsert` are a message; `CreateTicket`/`SetInitial` a creation with an initial status;
`DeleteRows`/`RemoveDirectory` a deletion. `Overtake` marks the requests in flight whose reading a write makes stale.

* `LegalUnlessRaced` – the status moves along the README's table except for a stale request or an initial status.
* `RepliesReopenUnlessRaced` – a reply that read the ticket after its last change never lands in a closed one.
* `AttachmentsPresent` – a posted message's file is on disk.
* `DeletedTicketsLeaveNoFiles` – the directory of a deleted ticket is gone, unless the removal was cut off or an upload overlapped.

### Clients

One client stands for all; nothing crosses clients. Desk requests and the purge are *actors* with a job and a step.
`Cascade` is the transaction of the permanent deletion, `ExportRead`/`ExportRecord` the final export,
`PurgeFind`/`PurgeCheck` the daily task, `Restart` the loss of the interval's phase (the first tick is consumed). `DeleteTicket` is the desk's
`DELETE /tickets/:id`, which removes the directory after the row. `FileTicket` files for a client who is hidden on any day: a failed login does, and a token that was exchanged
before the deletion.

* `TogetherUnlessRaced` – client and tickets are hidden and shown together.
* `NothingDeletedUnexported` – nothing is deleted for good without a recorded export, and the desk's final export contains it.
* `PurgeSparesRestored` – the purge deletes only expired accounts, but for one changed after its reading.
* `PurgedOnTime` – an account outlives its window by one day, and one for each failed purge and restart.
* `DirsGoUnlessRaced` – attachments go with the account ("Message threads and attachments", PRIVACY-NOTICE.md), but those of a filing
  or an upload that overlapped the deletion of the account or of its ticket, or of a listing or a removal that failed.

### Recurring

Dates are ticks; the date of an invoice template is `next_recur_date`, that of a ticket template the end of its interval.
`ListDue` is the query of a run, `Copy` the insert, `Advance` the update of the date; `CopyRefused` is the foreign key.
`Fails` is an error of either statement, `Crash` a panic or restart. `UpdateFind`/`UpdateWrite` is the PATCH of
an invoice, which writes back every column it read. `HardDelete` deletes tickets and drafts and stops the
recurrence of issued invoices.

* `OneCopyPerDateUnlessSlipped` – each date is copied once, unless its template did not move or was moved back.
* `NoDateSkipped` – each date of an invoice is copied, however late the task is and whatever fails.
* `OrphansQuietUnlessRaced` – what outlives its client is issued and does not recur, unless an edit is written after the
  deletion. (The desk can turn the recurrence of an orphan on; no run lists it, so nothing is made.)
* `CatchesUp` (liveness) – no template stays due.

### Rate limiter

`Allow(ip)` is the whole function: eviction (`Kept`), refill (`Refilled`), take or refuse (`Store`). The unit is what one tick
refills, so a request costs `Cost` = 1/rate ticks and `Cap` = burst × `Cost`; rounding of `f64` is left out.

* `BurstBounded` – from any tick until now an address was served at most a burst and what was refilled since.
* `ImplementsTokenBucket` – every answer is the one that buckets filling by themselves would give. The mapping reads the
  level off the stored bucket: `level` is `Refilled`.

### Browser

`Load` and `Open` start a page, whose mount refresh is sent outside the interceptor; `Intercept` is the 401 handler, `RefreshDone` and
`RefreshFailed` the end of the locked refresh, `Resend` the requests that waited. `Serve...` are the server's answers, which set the cookie
(`JarAfter`) as they arrive; `Stray` is the Set-Cookie of a page that was left. `SaveProfile` is followed by `refreshProfile`, whose answer (`Reprofiled`) nobody checks
against the token of the moment. The countdown of a locked login only delays a try.

* `WipesExplained` – the server takes the browser for a thief only after a lost answer, between two tabs, or when a page
  load's refresh overlaps one under the lock; never through two refreshes under the lock.
* `SignedInAs` – who signed in on a page stays who they are, unless another request that sets the cookie was under way, or a link
  was opened over somebody's cookie.
* `StaysSignedOut` – after a logout nothing that arrives late brings the session back.
* `ProfileOfToken` (in `BrowserInv`) – the profile shown is the token's, whatever order `GET /auth/me` is answered in, unless it came last from a
  `refreshProfile` of an account that had signed out or been replaced. (A late profile beside another account's token takes three acts, one more than the instance has:
  the theorem covers it.)
* `NobodyStranded` (in `BrowserInv`) – the splash screen has a refresh of the page load under way, requests that wait for a refresh one under the lock, through losses, reloads
  and logouts. `Settles` follows from it once every request ends.
* `Settles` (liveness) – the splash screen goes and no request waits for ever.

### Ticket list

`Poll`, `Read`, `Receive` are a page's query; `SwipeResolve` hides a row, shows a toast and arms a timer, `Fire` is the
timer, `Undo` the toast's button, `Cleanup` what an unmounting row takes with it. `Bulk`, `BulkDone`, `BulkFails`, `LateAnswer` are
`Promise.all` over the selection.

* `HiddenRowsExplained` – a row out of sight is being closed, or was answered. (An open or pending ticket may be swiped; its close is refused without
  a word and the row stays hidden until the list is remounted: the third disjunct.)
* `UndoStops` (in `QueueInv`) – Undo stops the close, unless the row was swiped again and the first timer leaked.
* `BulkTruthful` – a batch that reports success changed every ticket.
* `EventuallyShown` (liveness) – the list ends up showing what the server has.

### Ticket page

* `DraftsKept` – text and file stay in the composer until a call that carries them succeeded. Known losses: what was put there while an
  earlier text was on its way, and a file when a note is saved.
* `SentOnceUnlessRetried` – nothing is sent twice but by Ctrl-Enter, which the disabled button does not stop, or after a lost answer.
* `RightTicket` – nothing is done to another ticket than asked, except a request held back offline while the page moved on.
* `RefusedExplained` (in `Inv`) – a transition on offer is refused only if the ticket changed after it was read; pending an acknowledged
  ticket aside, which is the disagreement `ticket_pend`.

### The desk's pages

`Pages` holds what `Invoices`, `Roster` and `Filing` share; each has its own `...Next`, and `Desk` interleaves them with `Go`,
which unmounts the page, and `Land`, the end of a filing's timers. Opening forms and filling them in is free; `MaxMoves` bounds forms closed and pages left.

An invoice has the columns the page sends in different ways: `status` (a button's), `terms` (any of the columns an edit form sends back as it found
them), `recurring` and `date`; each holds the number of the change that set it, so an older value is a smaller number.

* `ChangesKept` – a column is put back to an older value only by a request that overlapped the newer one, or by an edit form: opened
  from a row that did not show yet what had been asked for, or before the recurring task, somebody else or the deletion of the client changed it. No edit
  form undoes a status, however long it was open, nor what the form saved itself.
* `LinkRight` – the link in the window is the one its client has, unless something overtook it: another action before the
  answer, a deletion still under way when the link was asked for, a lost answer, a link the client or somebody else asked for, or a new link whose
  making failed after the old one was deleted (`cut`), so that the window shows the deleted one.
* `FiledRight` – one form files one ticket (`FiledOnce`), with the status asked for and for an end client of its own client (`FiledAsAsked`). A filing that
  fails between its two statements (`halved`) leaves an open ticket and an error, after which the form may file again.
* `FormsKept` (in `Inv`) – a form goes only by the person's hand or by the success of a request of its kind; the exception is a filed
  ticket, which takes the person away from whatever is open.

## Runs

`tlc -config X.cfg M` with the module and file of `PROJECT.json`. All instances are exhausted.

| Run | Instance | Distinct states |
|---|---|---|
| `sessions` | 1 user, 3 tokens, 2 handlers, cap 2, TTL = Retention = 1, MaxTime 2 | 1.1 M |
| `lockout` | 1 client, 1 desk, 2 handlers, 2 tickets, 2 links, tiers 2/3, windows and link TTL 1, MaxTime 2 | 1.6 M |
| `magic_links` | 1 user, 1 ticket, 2 links, 2 tokens, at most 3 rows, 2 handlers, MaxTime 2 | 1.2 M |
| `tickets` | 2 tickets, 2 messages, 3 handlers | 0.7 M |
| `clients` | 1 ticket, 2 requests and the purge, window 1, MaxTime 3, one failure and one restart | 1.1 M |
| `recurring` | 1 invoice, 1 ticket, 1 request, interval 1, MaxTime 1, 3 edits, 1 fault | 0.8 M |
| `rate_limiter` | 2 addresses, Cap 4, Cost 2, MaxInstant 6 | 0.2 M |
| `browser` | 1 tab, 2 accounts, 3 tokens, 2 acts, 1 fault, with or without a cookie at first | 0.87 M |
| `queue` | 2 tickets, pages of 1, 3 acts with 2 swipes, 1 change or failure by others | 0.7 M |
| `ticket_page` | 2 tickets, 2 texts, 2 calls, 1 move, 1 change, failure or spell offline | 3.9 M |
| `desk` | 2 clients, 1 admitted, 2 requests, 1 form closed or page left, 2 invoices, 2 sets of columns edited together, 1 failure, act of somebody else or run of the task | 2.7 M |
| `ticket_pend` | 1 ticket; expects the violation | |

Why these bounds are enough for the cases meant: the races are of two statements each, so two handlers
(three for tickets, where a third deletes) show them; three tokens are a chain of two rotations or two
sessions and a fork at a cap of two; the two lock tiers and the threshold are all met by a first lock at 2 and the
permanent one at 3; times of one tick are crossed by two or three; the limiter's clock runs past a full
refill from empty; a template created for date 0 and run at time 1 is one interval late. In the browser's instances two
requests can overtake each other, one fault separates what the server did from what the page knows, one move takes the page away from under them,
and two acts are a sign-in and a logout, or either before a page load. `desk` leaves two branches to the theorems, because they take three requests: an invoice or a link made for a client who was
deleted for good since the form or the window offered them. `MaxTime`, `MaxInstant`, `MaxRows`,
`MaxEdits`, `MaxFaults`, `MaxSlips`, `MaxActs`, `MaxMoves`, `MaxCalls`, `MaxRequests`, `MaxOthers`, `MaxTexts`, `MaxSwipes` and `MaxTokens` bound the instance, not the program.
Symmetry is used for ids where no liveness is checked.

Deadlock checking is off where the instance runs out of ids, acts or time (`tickets`, `clients`,
`recurring`, `rate_limiter` and the browser's runs); the real system gets more of each.

`Inv` of a module (`QueueInv`, `BrowserInv`: a module of proofs that is about two of them needs both names) conjoins its type invariant with the invariants named in its comment; `PurgeSafe` and `FiledRight` are conjunctions too. Each property of a passing run has a mutant: a definition with a plausible bug (marked "A bug:" or "Faulty:" in the module, just before
the definition) under which TLC finds the property violated.

## Disagreements found

One is a run that expects a violation: `ticket_pend`, `OffersLegal`. `TicketDetailPage.tsx:212` asks which transitions are legal and
`:217` offers *pend* for an acknowledged ticket; `ticket_status.rs:56-63` refuses it, and the page shows no error.

The others are the exceptions that properties which hold had to name, or facts met while translating.

| The text | The code | Seen in |
|---|---|---|
| README.md:275 "all previous sessions invalidated" | a refresh that rotated its row before the wipe inserts the successor after it | `OnlyOverlapSurvivesWipe` allows exactly this |
| README.md:320, a reply reopens a closed ticket automatically | a reply that read the ticket before it was closed leaves it closed | `RepliesReopenUnlessRaced` |
| rate_limit.rs:57 "keeps memory bounded" | tokens are refilled only on use, after `retain`; no bucket is ever evicted | theorem `NeverEvicts` |
| tasks.rs:187 "already ran at startup" | the start-up clean-up does not purge; every restart costs a day | `+ restarts` in `PurgedOnTime` |
| tasks.rs:126 "in a single transaction" | both statements run on `&pool`; a crash between them repeats the draft | `slipped` in `OneCopyPerDateUnlessSlipped` |
| routes/magic.rs:55 "one-time" | two overlapping exchanges of a link both get a token | `OneTokenUnlessRaced` |
| services/auth.rs:310 "Guards against duplicates" | two overlapping last failures leave two tickets, and so does a lock on each side of a deletion and restore of the client | `OneTicketUnlessUnseen` |
| InvoicesPage.tsx:504-518, an edit of one field | the form sends back the other columns as its row showed them, so what was saved and not yet read again is undone | `unread` in `ChangesKept` |
| AuthContext.tsx:85-93, the effect that reads the profile has a `cancelled` flag | `refreshProfile` (:143-146) sets it without one, so a late answer can show the profile of who was there before | `profileLate` in `ProfileOfToken` |
| client.ts:46 "one in-flight refresh at a time" | the refresh of a page load (AuthContext.tsx:112) is sent outside the lock | the third disjunct of `WipesExplained` |
| SettingsPage.tsx:512 "signs you out immediately", :102 "Sign out everywhere" | revoking a session ends it at its next refresh; the button ends this session only | `EndSession`, `Logout` of `Browser` |
| SettingsPage.tsx:544-546 "← Current" | marks the newest session of the list, whichever page asks | not modelled |
| the edit forms of invoices and clients (InvoicesPage.tsx:504-518, ClientsPage.tsx:162-180) | send an emptied field as undefined, so it is never emptied | not modelled |
| "KES paid to date" (InvoicesPage.tsx:889-918) | sums invoices of all currencies | not modelled |
| api/admin.ts:42 `confirm` must be "DELETE" | the server asks for "permanently delete " and the e-mail address | not modelled |
| ThemeContext.tsx:5-6, the system's scheme counts unless the user chose | an effect stores the initial theme at once (:65), so the system's changes (:69-80) are never followed | not modelled |

Logging out leaves the query cache (`App.tsx`), so the next account on the page sees the old lists until they are read again;
no text promises otherwise.

Hazards the list in `PROJECT.json` leaves out, because nothing in the code promises anything about them: a `change_password` cut off before its wipe
(services/auth.rs:535); a retry of a refresh whose answer was lost, which is a wipe by design (:474); a session revoked while its
refresh rotates it (auth.rs:199); a recovery link that expires unused (magic.rs:304); a jti inserted after a revocation (magic.rs:155); a file written for a message that is then
refused (messages.rs:138); two invoices that take one number, of which the constraint refuses one (db/invoices.rs:222); an export file deleted before its
answer arrives (admin.rs:251); dates that drift to the 28th (tasks.rs:69). The first seven but the numbers are steps of the models.

## Fairness

Three modules state fairness. `Recurring` has `WF_vars(TaskStep(k))` for each of the two tasks: the interval in
their loop ticks for ever, every statement returns (pool and busy timeouts), and the supervisor starts a
task again after a panic. Nothing is assumed of the desk's requests, nor of the clock: a request may hang for ever,
and `CatchesUp` must not depend on it. Failures are not fair and are finitely many (`MaxFaults`): a template whose copy fails
for ever is never copied in the code either.

`Browser` has `WF_vars(Progress(t))` for each tab: a request is answered or fails, and the page runs its continuation. Nothing is assumed
of the person. `Queue` has weak fairness of its timers, of its requests and of each page's query: timers run out, requests are answered, and the list polls every few
seconds while it is on screen. Failures are finitely many in both. All other properties are safety.

## Proofs

`tlapm XProofs.tla` for each module `XProofs`; all obligations are discharged by Z3, Zenon and LS4. For every component
`Invariance` (`LimiterInvariance`, `QueueInvariance`, `BrowserInvariance`) says that an inductive invariant holds of its specification, and one theorem for each safety property of its run is read off it. Handlers, users,
tickets, links, tokens, messages, texts and tabs may be any sets or numbers of them; the assumptions used are those the modules name. The invariant is the
conjunction of the properties and of what induction needs besides. `SessionsProofs`, `ClockProofs` and `DeskProofs` hold the proofs of two components each, in parts that share the
prover's basic facts and no state.

**Sessions.** From the named assumptions of the module (`MaxSessions > 0`, `Retention >= TTL`, `NoUser`/`NoToken`
outside their sets), for any number, finite or not, of users, tokens and handlers:
`TypeCorrect`, `CapHolds`, `RotationHolds`, `WipeHolds`, `RetentionHolds`, each a temporal theorem of `Spec`. They follow from `Invariance`, whose

    Inv == TypeOK /\ HandlersOK /\ RowsOK /\ Capped /\ RotationInv /\ AgeInv /\ WipeInv

strengthens the properties as far as induction needs: `HandlersOK` and `RowsOK` say what a handler at each step
holds and that unused tokens have no history; `Capped` adds that live rows are a finite set; `RotationInv` that a handler about to insert a
successor has already retired the parent – without it the step `RefreshCreate` would not preserve
`RotationRetiresParent`; `AgeInv` that a rotated row's expiry is within a TTL of its rotation, which with
`Retention >= TTL` is why cleanup spares it; `WipeInv` that a handler still holding a wiped token is marked
stale, so what it inserts is marked a survivor. The proof has one lemma for each action and conjunct it can disturb.

**Rate limiter.** From `LimiterAssumption` (`0 < Cost <= Cap`), for any addresses, capacity and cost: `LimiterTypeCorrect`, `BurstHolds`,
`NeverEvicts` and `LimiterImplementation` (`Spec => ImplementsTokenBucket`: initial state to initial state, `Tick` to
`Tick`, `Allow` to `Serve` or `Refuse`). The invariant is `LimiterTypeOK /\ NoneFull /\ Ledger`: `NoneFull` says that a
stored bucket is never full, because `allow` stores it only after taking a request's price or when it holds less than that; `Ledger` that what was served in a
window plus what the bucket holds is at most the burst plus the refills of the window, of which `BurstBounded` is the
part that drops the holdings.

**Tickets.** From `IdsAssumption`: `InvHolds`, `DeletedTicketsLeaveNoFilesHolds`, `LegalUnlessRacedHolds`, `RepliesReopenUnlessRacedHolds`. `HandlerOK` says
that what a request knows of the status (its transition is documented, the ticket is closed, or is not) is true unless the request is marked stale, which is what
the two action properties need; `Distinct` that no two requests post the same message, so that one cannot remove or replace the other's file; `ThreadOK` and `FilesOK` that
rows, files and tickets belong together.

**Lockout.** From the assumptions on roles, links, thresholds, delays and windows: `InvHolds`, `DeskHasRecoveryLinkHolds`, `LockOutlivesLoginsHolds`. `Verified` says that a login which
found its password right read a counter below the threshold, so that its reset never ends a permanent lock it had seen; `OneFiledUnlessUnseen` is the property for hidden tickets as well, which a restore needs; `Creating` that
every recent ticket a handler is about to duplicate is in its `unseen`; `Marking` that the link an exchange will mark is not somebody else's by then.

**Magic links.** From the assumptions on ids and times: `InvHolds`, `NoOrphansHolds`, `TokenHonouredHolds`. `Cleared` says that who inserts a link has cleared its scope unless it was overtaken; `Found` and
`First` that the link of an exchange is used from its mark on and that the exchange is its only one unless overtaken; `JtisOK` that a jti row goes only by expiry or with its user.

**Clients.** From `ClientsAssumption` (a window of at least a day): `InvHolds`, `PurgedOnTimeHolds`, `PurgeSafeHolds`. `JobOK` gives each job its steps, and a soft deletion a stamp of today or yesterday; `DeletionOK`
says that a deletion past its listing has listed every ticket, and the desk's has exported it, up to the strays, and that an export is recorded before a cascade; `DirsOK` that a directory belongs to a ticket, or a deletion, of the account or of that ticket, is
about to remove it, or it is a stray; `PurgeOK` that what the purge read is still so unless it was overtaken, because a hidden account beyond its window can be found by no restore; `OnTime` that on its last day an account waits for a purge that is due or
under way, without which the midnight after it would break `PurgedOnTime`.

**Ticket page.** From `TicketPageAssumption`: `RightTicketHolds`, `DraftsKeptHolds`, `SentOnceHolds`, `InvHolds`. `Numbers` says that calls and texts are numbered once and that what the server has was served; `Kept` that a text
under way is still in the composer or was overtaken by a later one; `Once` names the ways one text can be in two places, each of which has it sent again; `Explained` that no answer is ahead of the server and a
transition under way was legal for the version it was offered for.

**Desk.** From the assumptions of `Pages` and `Invoices`: `ChangesKeptHolds`, `LinkRightHolds`, `FiledRightHolds`, `InvHolds`. The invariant has one part for each page and each part is proved from that page's steps and what the shared variables
do. Of the invoices, `Held` collects the values of a column that any write may still bring (the row's, the list's, the open form's, those of requests under way); `Bounded` says that none is from a change not yet
asked for, `SavesNewest` and `FormNewest` that of this page's own changes asked for while a form was open none is newer than what the form, or its request, sends: so a save undoes only what it overlapped or what its form never showed.
`Uncrossed` says that, as long as nothing overtook the last request for a link, it is the only one, no deletion is under way, and the window's link is there until that request deletes it; `Chosen` and `Single` that
a filing's end client is its client's, and that a form has one request unless it was filed again; `Halving` that a filing which failed halfway goes no further. The proof brought up a case the instance is too small for: a permanent deletion still unanswered when the desk asks for a link
of the same client leaves a window whose link is gone, which needs five requests. `LinkRight` counts it as overtaken.

**Recurring.** From `RecurringAssumption` (no id is both an invoice and a ticket, a positive interval): `RecurrenceSafe`, `NoDateIsSkipped`. `RunOK` says that a template is on at most one
list of its run, with a date that has come, and that a copy waiting for its date to move has been made; `CopiedOnce` that a date on a list has no copy yet and that every date copied is
behind the template's date or about to be, which is what lets a run copy without looking: it needs both, because the run acts on the dates it listed. `Chain` is why no date is skipped: the
date of an invoice is some number of whole intervals after the one the desk gave it, and each date between has its copy; `Copy` makes the next, `Advance` moves past it. The exceptions, `raced`, are a PATCH written on
a row that changed after it was read, and a move past a date the desk gave after the listing. `Unmade` says that templates not yet created have no copies.

**Ticket list.** From `QueueAssumption` (at least one ticket, pages of at least one): `HiddenRowsExplainedHolds`, `BulkTruthfulHolds`, `QueueInvHolds`. `HiddenOK` is stronger than the property: the ticket of a hidden row has its close due, under way or
answered *by a swipe*, because the request a batch has under way for the same ticket ends without the row coming back. `TimersOK` says that the timer a row would clear is of a row still
mounted and was not stopped by Undo; `BatchOK` that each ticket of a batch is changed or has its request, or its refusal, still to be handled.

**Browser.** From `BrowserAssumption` (at least one tab, a visitor among the accounts): `WipesExplainedHolds`, `SignedInAsHolds`, `StaysSignedOutHolds`, `NobodyStrandedHolds`, `BrowserInvHolds`. The run has one tab; the theorems are for any number, and for any number of
accounts, tokens, acts and losses. `NumbersUsed` and `Unclaimed` say that what names a session names one that was made, and that a number in an answer nobody has handled is nobody else's and is not rotated; `OneRefresh`
that a page has at most one refresh of each kind, none of them waiting for another. `Explained` is the core: a session that was rotated, and whose answer was not lost, still has it on the way to
the page that sent the refresh as long as the cookie names that session, and that page has no other request of the kind with the old cookie. A wipe is a refresh that finds its session rotated, so it comes from another page, from the other kind,
or after a loss, which is `WipesExplained`. `OwnPage` and `SignInsOwned` extend `SignedInAs` to the cookie and to every request
of the page that can bring a token; `SignedOut` says that after a logout no request can. `ProfileOfToken` is inductive by itself: every answer that sets the profile either asked with the token of the moment or sets `profileLate`. `OwnPage` needs the browser's rule that the Set-Cookie of one tab is every tab's: a page joins
`mixed` when another tab gets the cookie of somebody else. `NobodyStranded` is inductive beside them: it uses `OneRefresh`, since a refresh that itself waited would wait for ever.

Only model-checked, on the instances above: the three liveness properties (`CatchesUp`, `Settles`, `EventuallyShown`), which the provers at hand cannot prove: fairness needs `ENABLED`. `NobodyStranded` is the part of `Settles` that is safety.
`OffersLegal` is violated. Every safety property of a passing run has its theorem.

## What is left out

* **Data that no control reads**: titles, texts, amounts, invoice numbers, mail, PDF, encryption.
* **Passwords, signatures, role checks**: they decide whether a request begins, and every request the models let in may also not begin.
* **The one-minute limit on exports and the export files** with their hourly cleanup and one-time download.
* **Access tokens of a login**: no state; they expire by themselves. Exchanged ones are in `MagicLinks`.
* **Back-off delays** of the supervisor: `Crash` lets the next run come at any time.
* **Months of different length** in `advance_recur_date`: all intervals are equal ticks.
* **The browser in the server's modules**: its requests reach them as arbitrary ones, which covers every order it can produce.
* **Parts of pages with a request of their own**: the billing profile of a client (saved from a snapshot of the mount) and its end clients (Enter bypasses the disabled
  button) on the clients page, the desk's profile form in the settings. `Unlock` and `Revoke sessions` of a row go the way of the other row actions and change nothing `Roster` keeps.
* **Invoices on the desk's page**: the end client and its check, the interval, the numbers, and the rule that an emptied column is not sent. Somebody else's edits are written at once
  and count as theirs; their own stale forms are another desk page's.
* **Clients of the ticket form that are deleted after the filing** keep their tickets in `Filing`, where nothing reads them again.
* **Presentation**: sorting, animation, sounds, drag handles, themes, the password generator, the command palette's list, the printed invoice.
* **Reports, health, notes, sub-clients, configuration**: reads, or single statements.

## Plan

Done, in this order: `Sessions` with proofs, `Lockout`, `MagicLinks`, `Tickets`, `RateLimiter` refining
`TokenBucket` with proofs, `Clients`, `Recurring`; then the browser: `Browser`, `Queue`, `TicketPage`, `Desk`, and the proofs of `Tickets`, `Lockout`, `MagicLinks`, `Clients`, `TicketPage`, `Desk`, `Recurring`, `Queue` and `Browser`.

Open, modelling: two tabs in a run of `Browser` (0.4 M states with one act, 2 M to 6 M with two, without liveness; the theorems cover them); the billing
profile and end clients of `ClientsPage`; export files beside `Clients`; the supervisor's back-off ladder; an abstract `OneTimeLink` that `MagicLinks` implements
when exchanges do not overlap.

Open, proofs: none of a property that is stated; with the abstract `OneTimeLink`, the step-by-step refinement.
