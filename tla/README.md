# Verification of mops-termine: polls, votes, groups

TLA+ models, TLC runs and TLAPS proofs for the poll application in `src/src/main`: users create date
polls in a web flow, publish them to groups, and vote, on pages with scripts of their own. Groups come
from an external service. All paths below are relative to the repository root `src/`; Java files are under
`src/main/java/mops/`, scripts under `src/main/resources/static/`. `PROJECT.json` maps every definition to the lines it models.

## 1. Inventory

| Component | State it keeps | Operations | What makes it correct | Model |
|---|---|---|---|---|
| `DatePoll` aggregate (`domain/models/datepoll`) | entries with counters, one ballot per user, status; lives in the memory of one request | `castBallot`, `updatePollStatus`, `aggregateNewEntries`, `updateYes/Maybe` | counters = ballots; at most one yes in a single choice poll; nothing changes after the end; replay insensitive to order and repetition | `DatePoll`, `DatePollLife` |
| Voting and results (`DatePollVoteService`, `DatePollInfoAdapter`, `DatePollRepositoryImpl`, `DatePollEntryRepositoryManager`) | database: entry rows, vote rows; each request its session | load (replay of stored votes), membership check, cast, save (replace all rows, put votes back one by one), show results | answered votes are not lost; results show what is stored; no late or invented vote; every request ends | `PollVoting`, abstractly `BallotBox` |
| Group synchronisation (`GroupSyncService`, `-Validator`, `-Webclient`, `GroupRepositoryImpl`) | stored groups; last status (memory only) | fetch, validate, save each, remember the status | no change missed; no group stored in part; valid groups arrive | `GroupSync` |
| Creation of a date poll (`scheduling-flow.xml`, adapters, `UploadService`, `DatePollBuilder`, `BuilderService`, `PublicationServiceImpl`) | one `DatePollDto` in flow scope | the views of the flow, back and forth; upload of a file; publish | only complete and consistent polls are saved; the wizard leads to a poll that can be published | `Scheduling` |
| Creation of a question poll (`poll-flow.xml`, `QuestionPollAdapter`, converters) | one dto per form in flow scope | the views of the flow; nothing is saved at its end | the confirmation shows only what is valid | `QuestionFlow`, with the other flow in `WebFlows` |
| `QuestionPoll` aggregate, builder and repository | builder: errors, validated fields, parts; aggregate: ballots; database: entry rows with voters | the builder's methods, `build`, `castBallot`, `save`, `load`; called by tests and by the saving service only | a built poll is sound; the first ballot of a user stands; what is stored is what was cast | `QuestionPoll` |
| Stored polls (`DaoOfModelUtil`, `ModelOfDaoUtil`, rows, `DatePollRepositoryImpl.save/load`, `GroupServiceImpl`) | database: polls, groups and their members | publish, vote (which saves the whole poll), decide who may vote, show settings | what is shown is what was confirmed; only those the publication lets in may vote | `PollStore` |
| Dashboard (`DashboardController`, `DatePollInfoAdapter`) and status queries | none | list a user's polls | a user's own polls are listed, all of them and nobody else's among them; polls of others are not (a stub, see below) | in `PollStore`; status and order left out |
| User repository, other JPA mapping, value objects | rows | as used by the above | | in part, by their effect on votes and validity |
| Group field of the publication page (`tagsinput/`, `publication.html`) | the groups, once as value of a hidden field and once as spans; an error mark | type, paste, confirm by Enter or comma, remove, submit | what is shown is what is submitted; server and page read the same groups | `TagsInput`, `PublicationPage` |
| Suggestions for groups (autocomplete and menu of `jquery-ui.js`) | text, searched term, items, highlight, focus; timers for searching and for ending the highlight | keys, mouse, timers | an open menu belongs to the field and to the text | `Autocomplete`, `PublicationPage` |
| Other page scripts (`termine1.js`, Collapse of Bootstrap) | boxes and buttons, a section, the caret in its heading | tick, choose, fold | sections agree with what opens them; no entry is yes and maybe | `Collapse`, `Pages` |
| `validation.js`, `highlight-js`, Swagger UI of the documentation | none of the application's | decoration, generated code | | not modelled |
| Syndication services | none | called by tests only | | not modelled |
| Security, interceptors, configuration, markup of the templates, dummy data | none of their own | framework wiring, layout | | not modelled |

Interactions: a vote or result page is one HTTP request on a servlet thread; it calls service and
repository, which use the database in many short transactions. The synchronisation is a scheduled task
that writes groups, hence who may vote and whose votes are replayed. The flow saves through the same
`DatePollRepositoryImpl.save` as a vote, but a poll nobody knows the link of yet. The scripts meet the server
only when a page is loaded or submitted: the groups travel as one string that each side takes apart by itself.

What is hard here, and where (`hazards` in PROJECT.json has each at its line):

* `save` and `load` of a poll are not transactional. `save` replaces all entry rows, which drops all
  stored votes, and puts votes back one transaction at a time; `load` reads votes user by user and kind
  by kind. Requests interleave at each of these steps.
* The only concurrency control is accidental: a save deletes the entry rows its session has loaded, and
  fails if another save has replaced them.
* Counters are not stored. They are rebuilt by replaying ballots through `castBallot`, in hash order, with
  some ballots replayed twice, and with the rules that refuse votes applied to the replay as well.
* The flow binds forms on every transition but validates on some; uploads are taken in parts.
* A poll is loaded and saved as a whole by each vote, through constructors with six booleans in a row, and
  each save adds a group of its own to the groups that decide who may vote.
* Both builders keep their own account of failed and validated fields, and the order of calls decides.
* Votes of a question poll are stored one by one, in rows found by title, and never read back.
* The synchronisation fetches changes since a remembered status and may fail between any two groups.
* On the publication page three scripts handle the same keys, in the order in which they registered. Searches
  and highlights are on timers, which run out after the text has changed, an item was taken or the field was left.
* A tag is removed by clearing the list and adding the others again, each checked anew and each blurring the field.
* A section that is still opening or closing ignores what is asked of it.

## 2. Modules

```
DatePoll ----------- operators: the aggregate's methods as functions
  |- DatePollLife -- its life as a state machine        MCDatePollLife   DatePollLifeProofs
  |- PollVoting ---- requests, threads, database        MCPollVoting     PollVotingProofs
        \- BallotBox (INSTANCE): what voting promises   DatePollProofs: lemmas used by both
GroupSync ---------- task and external service          MCGroupSync      GroupSyncProofs
PollStore ---------- polls and groups in the database    MCPollStore      PollStoreProofs
QuestionPoll ------- builder, aggregate, repository      MCQuestionPoll   QuestionPollProofs
WebFlows ----------- both flows of a user                MCWebFlows       WebFlowsProofs
  |- Scheduling ---- creates a date poll (EXTENDS)
  \- QuestionFlow -- creates a question poll (INSTANCE)
Pages -------------- the pages with scripts, one at a time MCPages        PagesProofs
  \- PublicationPage  its events and the server's answer
        |- Autocomplete  field, menu and timers
        |- TagsInput --- the list of groups
        |     \- PageTexts  what scripts can tell of a text (also under Autocomplete)
        \- Collapse ---- a section that takes time to open and close
```

**DatePoll / DatePollLife.** `CastBallot` is `DatePoll.castBallot` in its order: status first, then
refusal, own entries, yes, maybe. `DatePollLife` allows any sequence of casts and the end of the period.

**PollVoting.** One action per database access of a request: `BeginVote`/`BeginView` (first query),
`QueryYes`, `QueryMaybe` (with the replay of that user), `Vote`/`Deny`/`ShowResults`, `ReplaceRows`/
`StaleRows` (first transaction of save: succeeds or finds its rows gone), `RestoreVote` (one per vote, in
the order of the loops), `FinishVote`/`FinishView`; and the environment: `DbError`, `PeriodEnds`,
`SyncMembers`. `gen` counts the generations of entry rows; each save makes new row objects, so a session
has loaded exactly one generation. `BallotBox` is the promise: casting replaces one user's ballot at once.

**GroupSync.** `Fetch` is the request with its validation, `Save(g)` one transaction, `Done` the end of the
run. The service counts its changes and answers with what changed since a status. `Restart` loses database
and status: production runs with `ddl-auto=create-drop`.

**PollStore.** `Publish`, `Vote` and `SyncGroup` are the three ways to write polls and groups, each one step here;
`SaveBy` is `DatePollRepositoryImpl.save`. `polls` holds rows; `Load` turns one back into an aggregate. `confirmed` is
a history of what the creator confirmed last; `unfinished` are polls whose flow failed after the first
transaction of `save`, so that it may confirm again, with other settings, under the same link.

**Scheduling.** One action per view, its back transitions included. `Errors`, `ValidatedFields`, `CanBuild`
are `DatePollBuilder`; the `...IsValid` operators are what adapters check; `Upload` is `processPollFile`.

**QuestionFlow / WebFlows.** One action per view of `poll-flow.xml`, as above, but each form has a dto of its
own, and a way back binds it unvalidated but has to pass it again on the way forward. `WebFlows` puts the two flows side by side: one is started
from the dashboard when the other has ended (`home`), each with its own scope, over the same stored groups.

**QuestionPoll.** `SetField` ... `AddGroups` are the methods of the builder, `Build` its end; `builder.errors`
holds the fields that have errors, `builder.validated` is `validatedFields`. `SaveRows`, `StoreVote`, `SaveEnds`
and `VoteFails` are the transactions of one `save`, `SaveRefused` the group that is not found, `Load` is `load`.

**TagsInput / Autocomplete / Collapse.** Operators, one per function of the script: a list is a record of the
hidden value (`field`) and the spans, a widget a record of all that autocomplete and menu keep between events.
`AddTag`, `RemoveTag`, `ImportTags` are the methods of the tagsinput plugin; `Search`, `Suggest`, `Close`, `Move`,
`MenuFocus`, `Refresh` those of the two widgets; `Show`, `Hide`, `Toggle` those of Bootstrap's Collapse.

**PublicationPage / Pages.** One action per event of the browser, with all handlers it has, in the order of
registration: `PressEnter`, `PressTab`, `PressDelimiter`, `PressBackspace`, `Paste`, `Edit` and so on, the
mouse in the menu and on the button of a tag, and the timers (`SearchTimer`, `MenuTimer`, `SectionSettles`), which
fire at any time after they were started. `Submit` is the controller with `PublicationAdapter`: the server parses the
string, and sends the page back with errors or goes on. `Pages` adds the settings (`ChooseSingle` with `showPriorities`),
the voting form (`ToggleGroup`) and sections folded by a click (`CollapseSection`). `follows` is a history: whether the
section has answered the last change.

In all modules an operator named `X_...` before `X`, commented "Faulty", is a plausible wrong version of `X`
that belongs to a mutation listed in PROJECT.json: with it the named property must fail. No specification
uses it.

### Abstractions

* A text, date or link is valid or not; a time span or user is a model value. Titles, visibility, wording
  and formatting are left out. Form inputs are those the page can send: a radio button is exactly one yes,
  maybe exists only with priorities and excludes yes (`termine1.js:11-13`).
* A user without a ballot is one with an empty ballot; nothing distinguishes them. The voting record is
  left out because `recordUserVote` is never called; the start of the period because nothing reads it.
* Arrival of a request and its first query are one step. Group members are read with that query. A user in
  several groups is replayed once: that further replays change nothing is `RecastIsNoop`.
* Putting one vote back is one atomic step, although it finds the row and updates it.
* Creator: each save adds a group holding just the creator, hence `members \cup {Creator}`.
* `PollStore` has no votes and no texts: what overlapping saves do to votes is in `PollVoting`. `SaveBy` may be atomic
  because overlapping votes write the same settings and only ever add groups; a vote that overlaps a repeated
  publication is left out.
* In `PollVoting` votes are for the poll's own entries; entries proposed by voters are modelled in
  `DatePollLife`. An empty radio form fails before it reaches the service.
* `Scheduling`: the browser's back button returns to a snapshot that was itself reached; a file that is no
  JSON or has no entries changes nothing; such steps are stutters. A poll is public unless the file says
  otherwise and lists groups.
* `QuestionFlow`: an answer is bad (no text, too long) or good; settings have no invalid value.
* `QuestionPoll`: entries are objects and `TitleOf` gives their titles, because the builder counts objects while
  the repository looks for titles. One caller; a builder is dropped once it has built. Loaded entries stand for
  the saved ones. The status never ends because nothing updates it.
* `Pages`: a text is a model value, and `Trim`, `Squeeze`, `Pieces` and `Offers` say what scripts can tell of it: itself
  without blanks around or in it, what lies between its commas, and which groups have it in their title. The menu is
  flat and does not scroll, so PageUp and PageDown go to its ends. The groups are an array in the page, so a search is
  answered at once and its counters for overlapping requests say nothing. The settings and the voting form are opened
  with any value they can have submitted. The dto does not matter while the page is shown, because each way off
  replaces it. A highlight deferred when the menu opened is dropped when the menu is filled again: the script would
  look for an item that is gone. Tab takes a highlighted item and stays in the field, because the page cancels the event.
* `GroupSync` does not look into votes: storing a group leaves vote rows alone, because the join tables are
  owned by the entries. A group whose last member leaves is invalid and stays as it was.

## 3. Runs

| Run | Asks | Instance |
|---|---|---|
| `DatePollLife` | Do counters stay exact, ballots single, a finished poll frozen, and does a replay not depend on order or repetition? | 2 users, 2 entries, one of them proposed; single choice, so that refusals happen |
| `PollVoting_serial` | One request at a time: does the page show what is stored, and do load, cast and save implement `BallotBox`? | 2 users, 2 entries, priorities (yes and maybe), 3 requests |
| `PollVoting_overlap` | Overlapping requests: what still holds? No answered vote is lost, no second yes, unless a load begins while another request puts votes back | 2 threads, 2 users, 2 entries, 4 requests |
| `PollVoting_storm` | All of the environment at once: exact tallies in memory, no invented, misattributed or late vote; does every request end, under fairness? | 2 threads, 2 users, 2 requests, end, sync, database errors |
| `GroupSync` | Is no change missed, no group partial, and does each valid group arrive? | 2 groups, 1 user and 1 nameless, 3 changes, 2 failures |
| `WebFlows` | Is each saved date poll valid; do the wizards confirm only what is valid? | a good and a bad time span; two good answers and a bad one; a stored, a missing and a blank group |
| `PollStore` | Do pages show what was confirmed, after votes, failures and retries; who may vote, while groups change? | 2 users, 2 links, 1 group, 2 entries, three choices of settings, 3 saves |
| `QuestionPoll` | Is each built poll sound, whatever the order of calls; do first ballots stand; is what is stored what was cast? | 2 users; 2 entries of one title, one of another, one invalid; a stored and a missing group |
| `Pages` | Does the page show what it submits, do menu, sections and caret keep up with keys, mouse and timers, do page and server read the same groups? | 2 groups; texts: empty, part of both titles, the same with a blank behind it (part of one title), both ids, both with a comma; 2 uploads, one with a blank and an empty group; 2 entries |
| `PollVoting_lost` (violation) | Is an answered vote kept? | 2 threads, 3 requests |
| `PollVoting_final` (violation) | Are the results of a finished poll shown? | 1 thread, the end |
| `PollVoting_public` (violation) | Are all votes of a public poll shown? | 1 thread, a voter outside the groups |

**Bounds.** `MaxRequests` bounds the requests of a behaviour; `Quiet` is the step of a system that has used it
up, so that deadlock is still checked. Two users are needed for one to lose what another does; two threads
for every pairwise interleaving; three or four requests so that something is stored, is lost, and is then
looked at. In `PollVoting_storm` two requests overlap each other and every event; with three the counts of
the proofs take over: `TalliesExact` and `OnlyTimelyVotes` are proved for all instances. `MaxStatus` 3 lets a
group change before, during and after a run of the task; `MaxFailures` 2 lets a failure follow a restart.
In `PollStore` three saves are a publication, its retry and a
vote, or two polls and a vote; the two entries let a repeated publication replace the ones before; of any two settings, one is
on without the other in some choice, so no two can change places unnoticed. In `Pages` nothing is bounded but the texts: a text that is offered two groups lets the highlight move and
wrap, one that is offered one shrinks an open menu under the highlight, and one that differs from another only by a
blank is what trimming, splitting and uniqueness can confuse; any number of events may follow each other. Time spans, groups and users beyond these add copies: the code never compares them with each other.

**Fairness.** `PollVoting!FairSpec`: a servlet thread that has a request goes on with it (`WF` of `Work(t)`, per
thread); nothing is assumed of users, clock, errors or synchronisation. `GroupSync!FairSpec`: the scheduler
runs the task repeatedly (`@Scheduled`, `GroupSyncConfig`); this assumes that the service answers or
fails, because the request has no timeout. Failures and changes end in that model by their bounds, which
stands for "from some point on nothing fails".

### Findings

1. `PollVoting_lost`: a request that loads while another restores saves without the votes still missing.
   The overlap run says precisely when this cannot happen: if no load begins during a restore (`torn`). Of the same
   cause: a vote is put back into rows of another request, and one user holds two yes votes in a single choice
   poll, which `OneYesUnlessTorn` excludes only without `torn`.
2. `PollVoting_final`: the replay of stored votes goes through `castBallot`, which refuses once the poll is
   over; the results of a finished poll are empty. A vote submitted after the end also runs `save` with
   this empty aggregate and so deletes the stored votes.
3. `PollVoting_public`: only users of the poll's groups are replayed, though everybody may vote.
Seen while modelling, without a run: `castBallot` does not look at the start date, which fileupload.md:15
says to be the begin of the voting; `voteIsEditable` (`DatePollConfig.java:16-17`) is never read;
`recordUserVote` is never called, so the status "voted" is never reached; the example file of fileupload.md
uses `"open": false`, which is not read, and so publishes to everybody. Nothing ends a poll that the dashboard
loads (`ModelOfDaoUtil.pollOf` leaves its status open), so it never counts one as terminated.

Of the dashboard: README.adoc:35-36 wants it to point a user to the polls that concern them, and `mobile-dashboard.html:85` has a
section "Andere" for those of others, but `getDatePollByStatusFromUser` (`PollInfoService`, line 52) returns an empty set,
with a "TODO: immer leer?", so those who shall vote never find a poll there. `PollAsConfirmed` takes no side: it says that
the creator finds the poll and that nobody else has it among their own.

A comment in `BuilderService` (line 54) expects all fields of a poll to be valid when it is built. Parts of a file
that cannot be read, blank group names and a publication that is skipped lead to a confirmation of a poll that
cannot be built; the damage is an error on submit, as `SavedIsValid` shows.

Of the pages: an id that was typed or pasted but not confirmed by Enter or a comma is not submitted, although the hint says
to paste it (`publication.html:36`). After the warning that a private poll has no participants
(`flow-messages.properties:20`) the page ticks "public" by itself, and groups added then do not limit access. A box ticked
"public" is not ticked when the page is opened again. Two quick clicks on the box leave the groups hidden though the poll is
private (`SectionsFollow` says exactly when). A choice of priorities is submitted while it is hidden, and the
server refuses it. Removing a tag loses the text in the field and marks it as wrong. A highlight deferred until the mouse
moves takes the item under the mouse when the menu opened, not the one it is on.

Of question polls: the flow never gives its `PublicationDto` a link (`poll-flow.xml:16`; the form shows the field
without a name), so each private one is refused with a message that says this "sollte nicht entstehen können"
(`flow-messages.properties:10`), although question polls are meant to be restricted to groups (arc42, lines 276-281;
`QuestionPoll.md:26`). `QuestionConfirmsValid` is about what is confirmed and does not count that as right. One entry is
enough for the flow but not for the builder (`MIN_ENTRIES`). The builder accepts or refuses a set with an invalid
entry depending on the order of a `HashSet`, and never validates the period. Two entries of one title can be
built but not voted on: the row is looked up by title. The page of the confirmation uses `datePollDto`, which
its flow does not have, and the confirmation saves nothing. A poll that is loaded has no ballots, so saving it again would
drop the stored votes, and a user could vote a second time, against `QuestionPoll.md:16`; no page loads one yet. `SavedAsCast`
compares the rows with the aggregate as it is and `FirstBallotStands` leaves `Load` out, so neither would notice.

## 4. Proofs

All theorems are for every value of the constants: any finite set of users and entries, any threads, groups,
members, time spans, any number of requests, changes and failures.

| Module | Theorems | Argument |
|---|---|---|
| `DatePollProofs` | `CastBallotGood` and lemmas about `Recount`, `UpdateSelection` | one `UpdateSelection` moves each counter by the change of the set of voters (`FS_AddElement`, `FS_RemoveElement`); two of them, on different kinds, do not interfere; entries a form adds start with nobody |
| `DatePollLifeProofs` | `LifeTypeOK`, `LifeCountersExact`, `LifeOneYesPerUser`, `LifeFrozenAfterEnd`, `LifeRecastIsNoop`, `LifeCastsCommute` | `LifeInv`: the aggregate is well formed with exact tallies, and nobody votes for an entry the poll does not have. The last part is needed: otherwise an entry added later starts at 0 with voters. `CastFields` gives every field after a cast, with counters that do not depend on when entries were added; two casts then commute field by field |
| `PollVotingProofs` | `VotingTypeOK`, `VotingTalliesExact`, `VotingOnlyTimelyVotes` | `VotingInv` follows a vote through every place it can be: stored, read by a query, in the replayed aggregate, waiting to be put back. In each it is in `inTime`, the votes submitted before the end. A ballot to be cast is in `inTime` unless the poll has ended, and then it is refused |
| | `VotingOneYes` | `LockInv`: while one thread puts votes back, unless `torn`, it is the only one, nobody has loaded the rows it has stored, and what is stored and what it still has to put back are the votes of its aggregate. Whoever loaded earlier rows will find them gone |
| | `VotingNoVoteLost`, `VotingNoVoteLostUndisturbed` | `KeptInv`: an aggregate read from the stored rows has the answered ballot of every user it has read (`UpToDate`), hence all but the user's own when it is saved; when the last vote is back, stored and answered agree. Users who join the groups meanwhile have no answered vote yet |
| | `VotingShownIfUnreplaced`, `VotingShownIsStored` | a page of results is `UpToDate` while the rows it has read are there (`KeptShowsStored`); with one thread (`SerialInv`) they always are |
| | `VotingOverlapImplementsBallotBox`, `VotingImplementsBallotBox` | stored votes and those waiting to be put back are the box (`BoxRows`), and only a request that puts votes back has any waiting (`OwingInv`). The box changes only when the rows are replaced (`OwingNext`); by `LockInv` nobody else has votes waiting then, and by `KeptInv` it is a `Cast` (`ReplaceIsCast`). The theorem with one request at a time is a special case |
| `GroupSyncProofs` | `SyncTypeOK`, `SyncNoChangeMissed`, `SyncStoredAsPublished` | `SyncInv` relates a run to the service it may lag behind: what is to be saved is current unless it changed after the answer (`TodoOK`), and, if nothing was dropped, all up to the answer's status is stored or still to be saved (`NothingDropped`); `Done` needs the second, `Save` the first |
| `PollStoreProofs` | `StoreTypeOK`, `StorePollAsConfirmed`, `StoreAccessAsPublished` | the conversions undo each other (`PollDaoFacts`); `RowOK`: a poll has its confirmed groups, and each group beyond them was made by a save, so it holds just the creator and, its id being new, is never synchronised (`IdsDiffer`) |
| `WebFlowsProofs` | `FlowTypeOK`, `FlowSavedIsValid`, `FlowWizardConfirmsValid`, `CanPublishFacts` | `CanPublishFacts` turns the builder's bookkeeping of validated and failed fields into a condition on the dto. `WizardInv` says which parts are valid in which view as long as nothing was uploaded |
| | `WebFlowsImplementScheduling`, `WebSavedIsValid`, `WebQuestionTypeOK`, `WebQuestionConfirmsValid` | each step of the two flows is one of `Scheduling` or leaves its variables alone, so its theorems carry over; `QuestionInv` says which dtos are valid in which view |
| `QuestionPollProofs` | `QuestionPollTypeOK`, `-IsSound`, `-OneBallot`, `-FirstStands`, `-SavedAsCast` | `BuilderOK`: a field counted as validated has valid values, and adding keeps them; `SaveInv`: during a save, stored and pending votes together are the ballots, title by title |
| `PagesProofs` | `PagesTypeOK`, `PagesMenuIsCurrent`, `PagesSectionsFollow` | `WidgetOK`, kept by every handler and timer: a closed menu keeps no items, highlight or timer, and no search outlasts the focus; that is what lets a timer fire at any time. `PagesInv` adds box, settings and caret |
| | `PagesShownIsSubmitted`, `PagesTagsAsSeen`, `PagesGroupsSurvive`, `AddTagKeepsList`, `RemoveTagRemovesOne`, `ImportShowsAll` | `GroupsInv`: spans and hidden value agree, each text once, trimmed and a single piece (`ListOK`). The scripts add texts in loops; `AddTagsLoop` and `OthersLoop` unfold the recursive functions that model them, and `AddedAgain`, `ImportedAgain` follow the loops by induction on the number of texts: clearing a list and adding it again gives the same list |

Assumptions: those in the modules (finite sets, `ConfigConsistent`: no poll is single choice with priorities,
which `DatePollConfig.validate` enforces; `Blank` is no stored group; of texts `TextsType`; `TrimOnce`: trimming twice
is trimming once, and nothing trims to nothing; `SqueezedPieces`: what lies between the commas of a text without blanks
has none around it; `UploadsAreSplit`: uploaded groups come from between commas). TLC evaluates them in every run.

The theorems about lost votes and the ballot box assume more. `VotersInGroups`: all who may vote are in the poll's groups.
`Undisturbed`, of every step: the period goes on, nobody leaves the groups, and a request that has begun to put votes back
gets to the end; users may join, and requests may fail before that. Without any one of these the statement is false, by
the findings or because a failed save has already dropped the votes. `BoxAssumption` adds what the ballot box needs at
each moment: not `torn`, and its participants are the members there were to begin with. `KeptAssumption` is the special
case in which the environment does nothing (`Events = {}`, `NothingHappens`), `SerialAssumption` the one with one thread besides.

Induction: the library's theorem takes a predicate as a parameter and cannot be used here. `InductionUpTo` in
`PagesProofs` states it for a set of numbers instead, from the well-foundedness of `<` (`WFMin`), and `RecursionUpTo` shows
that a function defined by recursion over `1 .. N` exists. That is enough for the loops of the pages, which run over sequences.

Every invariant and action property of the passing runs has a theorem. Only model-checked is liveness (`RequestAnswered`,
`ValidGroupsArrive`): fairness and `ENABLED` are outside the prover's reach.

## 5. Not modelled

The counters of question poll entries: nothing moves or shows them. The status of a user and the queries for it
only read a voting record nothing writes. Deleting a poll is not offered anywhere. Framework
wiring, the markup of templates and dummy data hold no logic of their own.

Of the scripts: the parts of `jquery-ui.js` that the page cannot reach (submenus, typeahead and keys in a menu that has the
focus, scrolling, remote sources, options changed later, destruction), positions and markup, the widget factory itself;
limits, patterns, whitelists and callbacks of the tagsinput plugin; Bootstrap except Collapse; `validation.js`, which
finds no form to act on in the pages that load it; `highlight.pack.js` and the bundles of Swagger UI, third-party code in
a few very long lines that keeps no state of the application.

The groups that each save adds to a poll grow without bound. No document or test states a
limit, so there is no property to check; `PollStore` shows that they do not change who may vote.

## 6. Plan

Done, in this order: the aggregate, voting with its abstract specification, the synchronisation, the
creation of polls, question polls with their flow, stored polls and access, the scripts of the pages; safety proofs for
all seven, the proof that voting implements `BallotBox`, first one request at a time, then for overlapping ones in a
group that may grow while requests fail, and the loops of the scripts by induction.

Next, model: entries proposed by voters in `PollVoting` (the form does not offer them, the service does);
the page that offers the form, which loads the poll several times and may mix generations (`DatePollEntriesAdapter.
showUserEntryOverview`); a user in several groups, replayed more than once, in the run with overlapping requests;
`Pages` as the views of `Scheduling`, so that the form of a view is what its page can submit.

Next, prove: what is left of `KeptInv` when a load does begin while votes are put back (`torn`): two requests then put back
different aggregates, so a user's stored ballot may mix two of their own; that it is at least drawn from ballots they cast is
`OnlyTimelyVotes`. And that the synchronisation implements a copy that only lags behind, as a specification of its own.
