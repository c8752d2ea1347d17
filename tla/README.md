# LVS — formal models of the rental administration

LVS is the administration of a car-rental company: a TypeScript server
(Express, Drizzle, PostgreSQL at READ COMMITTED) and a React client. The desk
books vehicles, hands them out and takes them back, plans maintenance with spare
cars, and undoes mistakes. What makes it hard is that several employees do this
at once, on rows that are read in one statement and written in another.

This directory holds TLA+ models of its core, TLC configurations that check
them on small instances, and TLAPS proofs of the properties that matter most.

## 1. The system

| Component | State | Operations | Interacts with |
|---|---|---|---|
| Bookability predicate (`server/services/bookability.ts`, `isVehicleBookable`) | none | overlap clause, partition, verdict | every writer of a booking |
| Reservation writers (`server/database-storage.ts`, `server/routes.ts`) | table `reservations`, advisory locks, row locks | create, edit, status, pickup, return, revert, delete, restore | fleet, transports, fiscal periods, documents |
| State machine (`server/services/lifecycle.ts`) | none | transitions of reservations, blocks and transports, pickup-period rule, handover gate, availability derivation | all writers |
| Revert (`server/services/reservation-revert.ts`) | the columns a handover left | preview, plan, apply | writers, fleet, documents |
| Fleet (`database-storage.ts`) | `vehicles`: availability, workshop flag, odometer, fuel | recompute, nightly sweep, handovers | reservations |
| Spares and placeholders (`database-storage.ts`, `routes.ts`) | replacement rows, placeholder rows | assign, hold, fill, plan with a block | maintenance, reservations |
| Maintenance blocks (the same files) | rows of type `maintenance_block`, the flag of the vehicle | schedule, check in, complete, bring back, reopen, delete | spares, fleet |
| Transports (`database-storage.ts`) | `vehicle_transports`, the booking of a stand-in for the day | plan, execute, complete, cancel, delete, restore | rentals, recycle bin |
| Contracts and signing (`server/services/document-registry.ts`, `contract-signing.ts`) | `documents`, files on disk, `portal_contract_signatures` | generate a version, sign, file the signed copy, delete | reservations, portal |
| Invoice inbox (`server/services/invoice-inbox/`, `routes/expense-inbox.ts`) | `invoice_inbox_items`, `expenses`, the mailbox, counters in memory | poll, import, book, dismiss, rescan, scan by hand | a mail server, the scanner |
| Contract numbers | counter, unique column | issue, override | pickup |
| Recycle bin (`database-storage.ts`, `server/services/recycle-bin-purge.ts`) | `deleted_records`, `reservations.deleted_at` | delete with a snapshot, restore, purge | every deletable table |
| Portal requests, fines, fiscal periods, users, backups, reports, schedulers, client | their own tables and files | — | reservations |

Requests talk to each other through the database only. A handler is a sequence
of awaited statements; between any two of them another request may run. The
hard behaviours are therefore interleavings of check and write, values read
before a transaction and used in it, locks of several kinds (advisory lock of a
vehicle, of a version number, reservation row, vehicle row), writes with and
without a condition on the old status, links between rows of two tables that
are written in separate statements, lists of writes without a transaction in
which the server may stop, and legal sequences (return, rebook, undo the return;
cancel a transport and save it again) that end where no single step leads.
`PROJECT.json` lists the hazards line by line.

What makes each part correct:

* predicate — refuses exactly the clashes of the owner's rule (B-01, B-09 and
  BUG-107 of `docs/audit/besluiten.md`), whatever the order of booking;
* writers — no two live rentals overlap on a vehicle unless a writer that is
  deliberately, or by mistake, not judged behind the vehicle's lock put one
  there; a verdict is still true when it is acted on; every request ends;
* state machine — what is closed stays closed, except through the revert;
* revert — the row it judged is the row it writes, and its vehicle is locked;
  the odometer goes back only over the handover that is undone;
* fleet — the availability is what the rows say; what the handover gate has seen
  and the reading a handover stores are still true when it commits; nothing
  derived overwrites what staff have decided;
* spares and blocks — a car stands in once; a rental has one stand-in; a car
  that is with a customer is not cancelled under them; the flag of a car points
  at a block only while that block has the car;
* transports — a stand-in is booked once, on the day of its transport, for a
  transport that takes place; the delivery follows its rental; closed is closed;
* signing — versions are numbered without gaps or doubles and one of them
  counts; what is signed is what was shown; the evidence stays;
* inbox — every mail leaves a trace, is handled in the end, and costs what it
  says once;
* recycle bin — what is deleted has one record to come back by, what is there has
  none, and nothing is deleted that nobody looked at.

## 2. The modules

| Module | Models | Checked by |
|---|---|---|
| `Bookability` | overlap clause, verdict, status sets; pure operators | through the others |
| `Diary` | one vehicle, one clerk: bookings accepted and released | `parts` |
| `Diary_proofs` | theorems about `Diary` and their proofs | TLAPS |
| `BookingWrites` | all writers of a reservation as database calls with locks | five runs |
| `Calendar` | abstract specification of the reservation table | refined by `BookingWrites` in `moves` and in the proofs |
| `BookingWrites_proofs` | theorems about `BookingWrites` and their proofs | TLAPS |
| `Lifecycle` | the state machine: transitions, derived availability, gate, changes by hand; pure operators | through the others |
| `Fleet` | the vehicles: handovers behind row locks, and everybody who writes availability without one | three runs |
| `AtomicHandovers` | abstract specification of the handovers; `Fleet` extends it and takes its rows and rules from it | refined by `Fleet` in `desk` and in the proofs |
| `Fleet_proofs` | theorems about `Fleet` and their proofs | TLAPS |
| `Spares` | stand-in cars of one rental, the block and the flag of its own car | `parts` |
| `Spares_proofs` | theorems about `Spares` and their proofs | TLAPS |
| `Transports` | transports of one rental, their stand-ins, the delivery leg and the bin | `parts`, `cancelled_trip` |
| `Transports_proofs` | theorems about `Transports` and their proofs | TLAPS |
| `Signing` | versions, signatures and signed copies of the contracts of one reservation | `parts`, `signed_delete` |
| `Dossier` | abstract specification of those contracts | refined by `Signing` in `parts` and in the proofs |
| `Signing_proofs` | theorems about `Signing` and their proofs | TLAPS |
| `InvoiceInbox` | the poller, the import, and staff on the items | `office` |
| `Postbox` | abstract specification of the inbox | refined by `InvoiceInbox` in `office` and in the proofs |
| `InvoiceInbox_proofs` | theorems about `InvoiceInbox` and their proofs | TLAPS |
| `RecycleBin` | one vehicle, its bookings and their records: deleted, restored, purged | `parts`, `wiped_booking` |
| `RecycleBin_proofs` | theorems about `RecycleBin` and their proofs | TLAPS |
| `MCBookingWrites`, `MCMoves`, `MCFleet`, `MCDesks`, `MCParts`, `MCOffice` | instances for TLC | |

`BookingWrites` and `Fleet` look at the same routes from two sides: the first at
where a rental is placed, the second at the vehicle that is handed out. They
share `Bookability` and `Lifecycle`; composing them would multiply the states
without adding an interaction, except one named in section 6. `Spares`,
`Transports`, `Signing` and the inbox write rows no other module writes, and
`RecycleBin` looks at the rows of one vehicle as a set that comes and goes. `Spares` composes two
components, the stand-ins and the workshop, and `Transports` three, the transports, the rental
and the recycle bin, because there the interactions are the hazards.
`MCParts` and `MCOffice` put modules that share nothing into one run, a
behaviour of which is one of a single part; `MCMoves` and `MCDesks` do the same with
desks of `BookingWrites` and of `Fleet`, each with its own routes.

**Bookability.** A day is a number in the order of the ISO strings and a time a
number in the order of the HH:MM strings; the code only compares them. NULL
times are `NoTime`, an open end is `OpenEnd`, the day 9999-12-31 the code itself
puts in its place. `Overlaps` is `overlapWhere`, `Conflicts` adds
`partitionOverlaps`, `Verdict` the order of the refusals in `isVehicleBookable`.
Legacy status strings are normalised on reading by the code and do not occur.

**Diary.** `Over` and `Clash` restate the owner's rule without the SQL;
`RefusesExactlyTheClashes` compares the two in every diary that can be
accepted.

**BookingWrites.** `book` is the committed table; `advisory` and `rowLock` say
which request holds `pg_advisory_xact_lock` of a vehicle and `FOR UPDATE` of a
row; `tx[p]` is what request `p` has read and which statement it runs next
(`lock`, `row`, `check`, `write`). One action is one awaited call:

| Route | Actions |
|---|---|
| `POST /reservations`, rental | `BeginCreate`, `TakeLock`, `CheckPasses` or `CheckRefuses`, `CreateWrite` |
| `POST /reservations`, block | `AddBlock` (one INSERT, not judged) |
| `PATCH /reservations/:id`, and `…/basic`, which judges and writes the same way | `BeginEdit` (read, merge), `TakeLock`, `Check…`, `EditWrite` (sets only the columns sent) |
| `POST …/revert` | `BeginRevert` (peek), `TakeLock`, `TakeRow` or `RefuseRevert`, `Check…` for a cancellation, `RevertWrite` |
| `PATCH …/status` | `BeginStatus` (read, transition), `StatusWrite` (no condition) |
| `POST …/pickup`, `…/return` | `BeginPickup`, `BeginReturn` (read), `PickupWrite`, `ReturnWrite` (conditional on the status) |
| `DELETE …/:id` | `SoftDelete` (one conditional UPDATE) |
| restore from the bin | `BeginRestore` (row lock), `Check…` without the vehicle's lock, `RestoreWrite` |

A write becomes visible with its COMMIT; as the transaction reads nothing
between its last write and the COMMIT, the two are one step (`Finish`). A
request may die in any step (`Crash`): nothing is written, every lock is gone.

`placedBy` is a ghost: the kind of write that put a live rental where it is.
`Guarded` writes (create, edit, revert of a cancellation) are judged behind the
vehicle's lock and write what was judged. `Unguarded` writes are, by name: an
edit whose columns landed on another slot than the judged one (`stale_edit`), a
block turned into a rental (`retype`), a restore, the revert of a return, an
early pickup, and a status written over a closed row (`stale_status`).

`WaitsFor` says whom a request waits for: the holder of the advisory lock it asks
for, or of the row its `FOR UPDATE` or its UPDATE needs. The row locks of vehicles
are not here but in `Fleet`. `StaleWrite` names a write that was decided on a row
another request has moved since; pickups and returns do not look at `deleted_at`,
and the day of a handover is judged on the row its request read first.

**Calendar** has no requests and no locks: one row changes at a time, it is
vacated, stays, or is placed; a guarded placement meets no rental except one
that an unguarded write put in its place before.

**Lifecycle.** `Derived` is `deriveVehicleAvailability` in its order of
precedence; the sticky `needs_fixing` is in the vehicle it is given, `clear` is
`clearWorkshopFlag`. `flagged` is a `maintenance_status` other than `ok`.

**Fleet.** `book` and `fleet` are the committed tables; `rowLock`, `carLock` and
`advisory` the locks; `tx[p]` what a request has read and will write. A
transaction that has done all its statements waits in `commit`, so others run
between its writes and its COMMIT.

| Route | Actions |
|---|---|
| `POST …/pickup` | `BeginPickup` (read), `PickupLocksCar` (FOR UPDATE, gate) or `PickupRefused`, `PickupWritesRow` or `Overtaken`, `Commit` |
| `POST …/return` | `BeginReturn`, `ReturnWritesRow` or `Overtaken`, `ReturnLocksCar` (FOR NO KEY UPDATE), `Commit` |
| `POST …/revert` | `BeginRevert` (advisory lock), `RevertLocksRow`, `RevertLocksCar` (plan) or `RevertRefused`, `Commit` |
| `PATCH …/status` | `BeginStatus` (read, transition, gate), `StatusWrite` or `StatusGone`, then the recompute |
| `DELETE …/:id` | `Delete`, then the recompute |
| `PATCH /vehicles/:id/maintenance-status` | `Workshop`, then the recompute, twice |
| nightly sweep | `Sweep`, then the recompute of every vehicle |
| `PATCH /vehicles/:id` | `BeginStaff` (read, judged), `StaffWrite` |
| `PATCH /vehicles/:id/mileage` | `EnterMileage` |

The recompute outside a transaction is `ReadVehicles`, `ReadReservations`,
`PutAvailability`: three statements, no lock. A conditional UPDATE waits for a
row only while the row meets its condition (`WritableRow`), which is why pickup
and return, whose lock orders are opposite, do not wait for each other. A circle
is broken by PostgreSQL (`DeadlockAbort`).

**AtomicHandovers** has the same rows and vehicles and no locks: `HandOver`,
`TakeBack` and `Undo` are whole requests, each one step on a row and its vehicle,
with the availability the rule gives for the rows as they are then. Beside them it
has the writers that lock no vehicle (`RowBehind`, `VehiclesAlone`,
`OdometerByHand`); the first two set `overruled`, from where on a handover promises
its row and its odometer, and of the availability only that it takes back no decision
of staff.

A reading of the odometer is named by the handover it was taken at, which is all
a restore can get wrong; comparing readings (a decrease needs a password) only
refuses. `trail` is a ghost: of each vehicle, the marks of the handovers still on
its odometer, each with who wrote it, which handover it was, its day, and which
marks were there before. A handover that is done again replaces its mark.
`overruled` says that a vehicle has been written by one of the routes that do not
lock it. `PlansAssumption` says that of one vehicle at most one rental is out when
a run begins.

**Spares.** `spare` is the rows with `replacement_for_reservation_id` of one
rental, `block` its maintenance block (`scheduled`, `in` the workshop, `out`,
`gone` to the bin), `workshop` the columns `maintenance_status` and the link to
the block that raised it, `carLock` the advisory locks. Every request reads,
keeps what it read (`snap`, `booked`, `slot`) and writes by id later:

| Route | Actions |
|---|---|
| `POST …/assign-spare` (`createReplacementReservation`) | `AssignStart` (lock of the spare, who stands in now), `AssignCommit` |
| `POST …/maintenance-with-spare` | `PlanStart` (both cars locked), `PlanCommit` (plan, or plan again) |
| `POST /placeholder-reservations` | `HoldStart`, `HoldCommit` |
| `POST …/assign-vehicle` of a placeholder | `FillStart` (no lock), `FillCommit` (under the lock, if it is still a placeholder) |
| pickup, return of the spare | `PickUpSpare`, `ReturnSpare` |
| `POST …/complete-maintenance` | `CompleteStart`, `CompleteCommit` (closes the block once) |
| `POST …/return-from-service` | `BringBackStart`, `BringBackCommit` |
| `DELETE` of the block | `DeleteStart`, `SweepSpare` (one by one), `DeleteBlock`, `ReleaseVehicle` |
| `PATCH /vehicles/:id/maintenance-status` | `CheckInStart`, `CheckInLook`, `CheckInBlock`, `StampBlock` |
| undo in the history | `Reopen`, `StampBlock` |
| an error or a restart in any of these | `CutOff` (the transaction and the locks are gone, what was written without one stays) |

`adrift` is a ghost: the flag names a block whose delete was cut off before it freed
the car, or that did not have the car any more when the stamp was written.

**Transports.** `leg` is the transports, in the table or in the bin, `standIn`
the reservations of their stand-in cars, linked by id; `hire` is what the rental
asks of its delivery. What a PATCH does is derived from the row it read
(`clerk.cur`) and the one that is sent (`clerk.next`): `Closing`, `Reassign`,
`TurnOff`, `Arrange` and `Shift` are the conditions of `applyTransportUpdate`
(`closingNow`, `relatedVehicleChanged`, `spareTurnedOff`, the creation of a
stand-in, `scheduledDateChanged`). Row and stand-in name each other: `leg[t].spare`
is the transport's `spareReservationId`, `standIn[i].transport` the reservation's
`replacementForTransportId`.

| Route | Actions |
|---|---|
| `POST /transports` | `BeginPlan`, `Judge`, `Commit` |
| `PATCH /transports/:id` | `BeginUpdate` (transition), `Judge` (lock of the car, verdict, refusals), `Commit` (the stand-in, then the columns sent and three columns from the old read) |
| `DELETE /transports/:id` | `BeginDelete`, `DropSpare`, `DropLeg` |
| restore from the bin | `BeginRestore` (judged without the lock of the car), `Restore` |
| edit of the rental | `EditRental`, then outside its transaction `SyncRead`, `SyncWrite` |
| delete, or cancel with transports | `RentalOff` |
| handover of the stand-in | `HandOver` |

**Signing.** A document is a row and a file (`doc[d].file`, the SHA-256 of its
bytes); `signature[d]` is the row of the unique original `d`, `of` its column
`document_id` and `copy` its `signed_document_id`, both NULL when the document
they point at goes.

| Route | Actions |
|---|---|
| `GET` of the page, `POST` of the signature | `Open`, `CheckState`, `ReadFile` (the hash again), `InsertSignature`, `NumberVersion`, `InsertDocument`, `LinkCopy`, or `RegisterFails` and `UndoSignature` |
| generate (`registerGeneratedDocument`) | `Generate`, `NumberVersion` (under the lock), `InsertDocument` (supersedes), or `RegisterFails` |
| `DELETE` of a document | `DeleteCheck`, `Unlink` (the file), `DropRow` |
| edit of the reservation; cancel, reopen; a file overwritten | `MarkStale`, `CloseOrReopen`, `Overwrite` |
| restart of the server | `Crash` |

**Dossier** has no requests: a document is filed once, under a number above those
of its kind that are there (`File`); a document that is there and has no signature
is signed on one content, shown and original alike (`Sign`); the signature gets a
signed document that no other signature has (`Seal`) or is taken back while it has
none (`TakeBack`); a document that goes takes the pointers to it along
(`Discard`). It does not say that a signed document is never discarded, since the code
does that (`signed_delete`); which documents stay is `SealedContractStays`.

**InvoiceInbox.** `item` is the rows by the unique hash of the attachment or of
the mail, `ledger` the expenses a line of an invoice has become, `attempts` the
counters the poller keeps in memory, `run` its one run.

| Code | Actions |
|---|---|
| the poller (`poller.ts`) | `PollStart`, `OpenMail`, `MarkProcessed`, `MailFails` (count, or `GiveUp`) |
| an attachment (`importer.ts`) | `LookUpHash`, `Scan`, `CreateItem`, `AddLine`, `CloseItem`; interrupted before: `ReadExpenses`, `FinishInterrupted` |
| book, dismiss, rescan of an item in review | `Review`, `BookOrHeal`, `AddLineByHand`, `CloseByHand` |
| a scan by hand (`/expenses/from-invoice`) | `ScanByHand`, `CreateByHand`, `AddLineByHand`, `CloseByHand` |
| a failing statement; a restart | `MailFails`, `ClerkFails`; `InboxRestart` |

**Postbox** knows no poller, no failures and no restarts: a mail waits until it
is on record, what is on record stays, no mail comes back, and the one way a
mail leaves without a record is the failure of the record itself
(`given_up`). `Mails \ seen` is what waits and an item that exists is a record.

**RecycleBin.** A deleted booking is a row with `deleted_at` (`binned`) and a
record; of a deleted vehicle the row and its bookings leave the table, and the
record has the copy (`kept`) they come back from. `officer[o]` is a request with
the locks of the statements it has done: a claim and a purge hold the record
(`rec`), the DELETE of the bookings holds the rows it found (`doomed`).

| Route | Actions |
|---|---|
| `POST /reservations` on the vehicle | `BeginBooking` (advisory lock, the vehicle is looked up), `LandBooking` |
| cancel or return | `CloseBooking` |
| `DELETE /reservations/:id` | `SoftDeleteBooking` |
| `DELETE /vehicles/:id` | `DeleteJudge` (row of the vehicle locked, copied, judged), `DeleteRows`, `DeleteVehicle` |
| restore of a record | `Claim`, `RestoreBooking` or `RestoreVehicle` |
| purge of a record | `BeginPurge` (record locked), `Purge` |
| a refusal, an error, a restart | `RollBack` |

*Ghosts and exceptions.* A property of code with known gaps states the gap by
name instead of being weaker: `placedBy` (section above), `beside` (stand-in
rows written while another request was adding one), `adrift` (the delete of a block
cut off, or its stamp written too late), `crossed` (two requests on one transport; two bookings of one file),
`fromRental` (a transport moved or cancelled from the side of its rental, which
does not touch its stand-in), `reopened` (back from the bin), `synced` (two edits
of the rental overlapped), `unrecorded` (given up on, and the record failed),
`astray` (a booking deleted, restored or purged while the delete of its vehicle
held a copy of it, or whose record was purged while it was in the bin with its
vehicle). The exceptions are what the code lets happen, found by TLC; outside
them the properties hold. `SealedContractStays` and `HandedOverStays` need no ghost:
the first is about documents no delete is on its way to, the second excepts the
requests that had listed the spare before it was handed over, which then cancel or
sweep it by id.

`NoLoanerTwice` needs three of them, because a stand-in car is booked twice on one
day in three ways: by a restore, which does not take the lock of the car; by two
requests on one transport, one that moves its day and one that assigns a car, each
judged on the row it read; and, with one request at a time, after the rental has
moved its delivery (`syncDeliveryLeg`, `database-storage.ts:2235`) and left the
stand-in on the old day: a car assigned then is judged for the day of the
transport only (`database-storage.ts:4131`) and written on a reservation of
another. The comment at `database-storage.ts:4122`, that two different transports
cannot both claim the vehicle on the same day, holds outside these three.

## 3. The runs

| Run | Instance | Shows |
|---|---|---|
| `moves` | 2 requests, 2 rows, 2 cars, at one of four desks. *Moves*: create, block, edit of vehicle or start. *Counter*: create, pickup, return, revert, delete, restore, overlapping periods, today before or on the start day. *Workshop*: create, block, edit of the type, pickup, delete, restore. *Dates*: create, edit of one date, early pickup | verdicts hold, locked rows stay what was read, refinement of `Calendar`, overlaps have a named cause, chains of waiting requests end, closed stays closed, dates go out of order only by a stale write |
| `desk` | 2 requests, 1 car, at one of three places. *Desk*: 2 rentals, pickup, return, revert; the first rental starts today or is out since yesterday; the vehicle may be out of rental, handovers are forced. *Counter*: a rental and a maintenance block (planned, in the workshop, later), pickup against status, delete and mileage. *Workshop*: the same rows, pickup against staff, workshop, sweep and mileage | availability follows the rows in every interleaving; a restore spares handovers of later days; only doomed reverts wait in a circle; the gate still holds at the COMMIT; no handover takes back a decision of staff; every behaviour is one of `AtomicHandovers`: a handover stores the very reading it overwrites, a revert puts it back |
| `parts` | five parts, one at a time. *Diary*: 4 days and the open end, 2 times and NULL, at most 3 rentals. *Spares*: 2 requests, 2 spare cars, two shifts: the writers of stand-ins on 3 rows, the writers of the block on 2, any of them cut off at any step. *Transports*: 2 requests, 2 days, thirteen combinations of screens with 1–2 transports and 1–3 stand-in rows. *Signing*: 2 requests, 2 documents, 2 contents, 1 restart. *Bin*: 2 requests, the vehicle, 1 booking, 3 records | the rule of the diary; every property of `Spares`, `Transports` and `Signing`, which implements `Dossier`; one way back out of the bin |
| `office` | fair. *Table*: 2 requests on 1 row and 1 car, six routes, the status route among them. *Inbox*: a poison mail in front of two mails with the same attachment, one mail per run, two lines, 1 employee, 2 failures or restarts | every request ends; every mail is handled; booked once; the inbox implements `Postbox` |
| `restore_race` | create, delete, restore | **violated**: a restore re-creates a double booking |
| `parallel_edits` | create, edit of vehicle or start | **violated**: two edits of one reservation land on a slot nobody judged |
| `status_race` | create, status | **violated**: a cancelled rental is picked up |
| `staff_decision` | status, staff | **violated**: a recompute writes over `not_for_rental` |
| `latest_write` | one request, 2 rentals, pickup, revert | **violated**: the odometer goes back over a later handover of the same day |
| `cancelled_trip` | one request, one transport | **violated**: a cancelled transport books a new stand-in when it is saved again |
| `wiped_booking` | 2 requests, 1 booking, 2 records | **violated**: the delete of a vehicle takes a booking it has not seen |
| `signed_delete` | *Signing* of `parts` alone | **violated**: a contract is judged unsigned, is signed, and is deleted |

*Bounds.* `Rows`, `Cars`, `Procs` bound the instance, `TableHasRoom` keeps an
insert from being asked for when no id is left (ids are never reused, so a run
ends with both ids in use and every later request working on those), `Asked` is
the set of periods clients ask for, `Patches` the sets of columns an edit may
send, `Days` what today can be, and `MaxRentals` the length of the diary. Two
requests and two rows are what each race needs: a conflict is a relation between
two rows, a lock conflict one between two requests. Two days hold every relation
of two periods: apart, equal, contained, adjoining. The theorems below do not
depend on any of these bounds. In the fleet today is fixed (`Today`), handovers
are dated today (`Dates`) and an earlier day comes from the rental that is out
when the run begins; `Found` is what the vehicle may be before the plan is
booked, `ByHand` what staff set, `Forced` whether the gate is forced. One vehicle
is enough for every property, as each speaks of one vehicle; the one statement
that writes several, the sweep, writes each from what it read of it. Three rentals are what it takes for turnovers to
add up on one day, and four days hold three one-day and multi-day rentals with
a gap.

`Shifts` bounds the rows of stand-ins and says which routes a behaviour of
`Spares` takes. Three rows let an assignment replace one that was replaced
before, while another is being added; the requests on the block need two, the
one they act on and the one that came beside it. `Plans` does the same for
`Transports` (`FreeRows`: a request that comes to write one more stand-in than
there are rows goes no further): two transports with a row each, one loaner and
two days are what a double booking takes, three rows of stand-ins what a sequence of turning off and on
takes; each combination puts the screens that write a common column together, and
two requests on them at once (one is enough in `cancelled_trip`). `Docs`, `Versions`: two documents are an original with a newer version,
or with its signed copy; `Hashes` a file before and after it is overwritten,
`Rendered` which of them a generation produces; `MaxCrashes` one restart. With two
documents TLC sees a document signed twice or on other bytes, but not a copy at the
wrong signature, which takes two originals and a copy; that part of `Dossier` rests
on the theorem, which holds for any number.
The bin needs two requests and one booking for each of its races; three records
are a vehicle deleted, restored and deleted again, or its booking in between
(`MaxRecords`; ids of records are never reused). `Mailbox`, `PerRun = 1` and `Attempts = 3` (as in the code) put the poison mail
in front of the queue, so the others are reached only when it is given up;
two mails with one attachment are the same file sent twice; `Lines = 2` is the
least for an invoice booked in part, `Faults = 2` for a failure on the way back
from one.

*Symmetry* over requests, rows and cars is used where no liveness is checked;
the specification names none of them. In `parts` it exchanges the requests
and, separately, what they work on (the spare cars, the documents).

*Fairness.* `office` assumes strong fairness of `Step(p)`: PostgreSQL serves
the queue of a lock in order, so a request that is able to take its lock again
and again gets it, and a handler whose query has been answered goes on. Of the
inbox it assumes weak fairness of `PollStart`, which a timer calls
(`startInvoiceInboxPolling`), and of `PollStep`: a run whose await has been
answered, or has thrown, goes on. Nothing is assumed of users, and neither a
crash nor a failure is ever due; without the bound on failures no mail need
ever be handled.

*Deadlock* is checked in `moves`, `desk`, `restore_race`,
`parallel_edits` and `latest_write`. `status_race` stops when both rows are
closed, `staff_decision` when the vehicle is out of rental and nothing is booked
that could change. `parts`, `cancelled_trip`, `wiped_booking`, `signed_delete` and `office` stop when a
bound is used up: no version number, row of a stand-in, record or mail is left. That no request
waits for ever is, for the writers of reservations, `EveryRequestEnds` and `ChainsOfWaitingEnd`; the parts
take at most one lock at a time, or two in one statement.

## 4. The eight disagreements

* `restore_race` — `restoreDeletedReservation` judges in its transaction but
  does not take the vehicle's lock, so a create judged while the row was still
  in the bin and a restore judged before that create commits both win. The
  comment beside it promises that a restore never re-creates a double booking.
* `parallel_edits` — the PATCH judges the row it computed from an earlier read
  and updates only the columns it was sent; the comment promises that it cannot
  land on a slot a parallel edit just took.
* `status_race` — the status route validates on an earlier read and writes with
  no condition; the comment says undoing a cancellation is no longer a status
  change.
* `staff_decision` — `recomputeVehicleAvailability` and the sweep read a vehicle,
  derive, and update it without a lock or a condition; staff who set
  `not_for_rental` in between are overruled, which the comment of the rule says
  nothing derived may do. The handovers, which lock the vehicle, never do it
  (`HandoversKeepStaffDecision`).
* `latest_write` — undoing a pickup counts another rental's pickup as later only
  when its day is later. When the desk registers one rental's pickup on a car by
  mistake, registers the right one and then undoes the first, the odometer goes
  back over the reading of the second, although a comment and the design say
  that only the latest write is put back and that the same day counts as later.
* `cancelled_trip` — cancelling a transport cancels its stand-in, but
  `spareRequired` stays set, and whether a stand-in is missing is asked again on
  every update: the next save of the cancelled transport, with nothing changed,
  books a new one. Two comments say that nothing may be booked for a trip that is
  over (`CancellingFreesSpare` shows that the cancelling itself keeps that).
* `wiped_booking` — the delete of a vehicle locks its row, reads its bookings,
  refuses on a live one, and deletes what is there by then. A create takes the
  advisory lock of the vehicle and never its row, and there is no foreign key, so
  a booking that is committed in between goes with the vehicle, without a copy.
  The comment of `deleteVehicle` says that the lock keeps this from happening.
* `signed_delete` — the delete of a document asks whether a signature locks it, then
  unlinks the file, then deletes the row, with no transaction, no lock and no
  condition. A signer who has read the file before it goes inserts the signature in
  between, and the signed original is deleted under it; the signature keeps a NULL.
  The comment says that the signed contract and its original "are evidence; they are
  never deleted from here". A contract that was signed and linked before any delete is
  judged does stay (`SealedContractStays`).

That a return can be undone onto a vehicle that has been rebooked, and that an
early pickup is not judged again, is what the code says it does; it is modelled
and tagged, and not counted as a disagreement. Three more gaps are modelled and named
in the properties of `Spares`: a spare that is handed over after it was listed is still
swept with its block, by id (`routes.ts:6922`; the rule above that line is applied to
the row as listed); a delete of a block that is cut off before its last write leaves
the car in the workshop for a block that is gone (`routes.ts:6955`); and a check-in
stamps the car with a block that was closed or deleted since it looked (`routes.ts:1929`).

## 5. The theorems

`BookingWrites_proofs`, for every number of rows, cars and requests and every
set of periods, routes and patches. Assumptions: the named ASSUMEs of
`BookingWrites` (days are naturals, asked-for periods are well formed, `Nobody`
is no row and no request); TLC evaluates them in every run.

| Theorem | Says |
|---|---|
| `Invariance` | `Spec => []IInv` |
| `TypeCorrect` | `Spec => []TypeOK` |
| `LockDiscipline` | `Spec => []VehicleLocked` |
| `RowDiscipline` | `Spec => []RowLocked` |
| `VerdictsHold` | `Spec => []VerdictStillHolds` |
| `Refinement` | `Spec => ImplementsCalendar` |
| `CheckedWritersNeverDoubleBook` | `Spec => []OverlapsExplained` |
| `JudgedRentalsInOrder` | `Spec => []PlacedInOrder`: a rental a judged write has put in its place ends no earlier than it starts |
| `WaitingEnds` | `Spec => []ChainsOfWaitingEnd` |
| `DatesBreakOnlyByStaleWrites` | `Spec => DatesBreakOnlyStale` |
| `EditsKeepDatesInOrder` | with the routes create, block, edit and delete, and no patch that sends the type, `Spec => []DatesInOrder`: a live rental is in order unless two edits crossed |
| `ClosedStaysClosed` | without the status route, `Spec => ReopenedOnlyByRevert` |

*The argument.* None of the invariants is inductive alone. `IInv` joins types,
`RowsHaveCars` and `PlacedExactlyTheLive` (the ghost tells the truth),
`RequestsInformed` (which fields a request has filled at which step),
`VehicleLocked`, `RowLocked` and `VerdictStillHolds`. The heart is the last: a
verdict, once given, can only be spoilt by a guarded write on the same vehicle,
whose writer would hold the same advisory lock. `ReadStep` and `WriteStep` are
the two lemmas everything goes through: a step that only reads keeps `IInv` if
the request that took it still knows and holds what its new step needs; a step
that stores one row keeps `IInv` and is a step of `Calendar` if nobody else owns
the row and the row is placed with care. Each action then has a lemma of its
own. From the refinement, `OverlapsExplained` follows in `Calendar`'s terms
(`PlacementIsExplained`): a guarded placement clashes with nothing a guarded
write has placed.

`WaitingEnds` rests on `Holders`: who holds the advisory lock of a vehicle is a
checked writer of that vehicle, past its `lock` step; who holds a row is a revert or
a restore that has judged it and asks for nothing more. So who waits for a vehicle
waits for a checked writer, who waits at most for a row, whose holder waits for
nobody. The statement is about any number of requests, where TLC has two.

`DatesBreakOnlyByStaleWrites` holds for all routes and patches. Its invariant adds to
`IInv` that the period of a create or an edit was judged in order (`JudgedInOrder`)
and that an early pickup sends its start and nothing else of the period
(`StartsOnly`). A create stores what was judged; an edit stores the columns sent
over the row as it is by then, which is what was judged unless the row has moved
(`EditBreaks`); an early pickup stores a start before the one it read, which is
before the end unless the start has moved earlier since (`AdvanceBreaks`). Every
other write leaves both dates alone. `JudgedRentalsInOrder` and
`EditsKeepDatesInOrder` say what follows for the rows themselves: the first for any
routes, of what a judged write has placed, the second of every live rental where no
unguarded write places one.

`Fleet_proofs`, for every number of vehicles, rows and requests, every calendar
and every set of open routes, from the named ASSUMEs of `Fleet`:

| Theorem | Says |
|---|---|
| `FleetInvariance` | `Spec => []FleetInv` |
| `FleetTyped` | `Spec => []TypeOK` |
| `VehiclesSettled` | `Spec => []Settled` |
| `OnlyDoomedRevertsWaitInCircles` | `Spec => []OnlyDoomedRevertsDeadlock` |
| `GateHoldsAtCommit` | `Spec => GateStillHolds` |
| `StoresTheOverwritten` | `Spec => StoresWhatItOverwrites` |
| `HandoversRespectStaff` | `Spec => HandoversKeepStaffDecision` |
| `LaterDaysAreKept` | `Spec => LaterDaysSurvive` |
| `HandoversAreAtomic` | `Spec => ImplementsHandovers` |

*The argument.* `Settled` speaks of committed rows, while the availability a
handover writes was derived some steps before. `FleetInv` says what lies between:
of every request which locks it has (`Holds`) and which fields (`Filled`), and of
what it has read and computed that it is still so (`Knows`: the odometer and the
gate of a pickup, the row a return or a revert will write, the plan of a revert,
and `AnswerHolds`, that the availability it will write is the rule's for the rows
as they will be). `MarksTrue` ties the ghost to the rows. A step that writes a row
or a vehicle spoils what somebody else knows only if they have its lock
(`KeepsKnowing`), so the writers behind locks keep it by the locks, and those
without set `overruled`, which is all `Settled` and `AnswerHolds` except.
`ReadStep` and `WriteStep` carry the actions, as in `BookingWrites_proofs`. The
theorem on circles is about two requests: pickup and return take their two locks
in opposite orders, and do not wait for each other because one of the two rows no
longer meets the condition of its UPDATE.

`HandoversAreAtomic` takes one more invariant, `DeskInv`: the row of a revert is there
and the reading it will put back is the one the rows still give (`RevertPlanned`: it
has all three locks), and what a pickup or a status change has found out of the day
its rental starts, early or not, is still true of the row, whose start moves to today
at most (`StartJudged`, `Continues`). Each handover then
maps to its one abstract step where it commits: by `FleetInv` nobody has touched
what it read, and by `DeskInv` it writes what a request would that read, judged and
wrote at that moment. All steps before are stutters, and those of the writers
without a vehicle's lock are `RowBehind`, `VehiclesAlone` or `OdometerByHand`.

`Signing_proofs`, for every set of documents, requests and contents and any
number of restarts, from `SigningAssumption`:

| Theorem | Says |
|---|---|
| `SigningInvariance` | `SigningSpec => []SigningInv` |
| `SigningTyped` | `SigningSpec => []SigningTypeOK` |
| `NumbersNeverShared` | `SigningSpec => []VersionsInOrder` |
| `NobodySignsUnseen` | `SigningSpec => []SignedAsShown` |
| `SignaturesKeepTheirCopy` | `SigningSpec => []SignatureHasItsCopy` |
| `SealedContractsStay` | `SigningSpec => SealedContractStays` |
| `TheDossierKeepsItsPromise` | `SigningSpec => ImplementsDossier` |

*The argument.* `SigningInv` joins types, `NumberIsFree` (who is about to insert
a version holds the lock of its kind, and its number is still above every number
of that kind), `JobsAreSound` (the hash a signer has read is the one the page
showed), `CopiesAreCopies` (whatever is called a signed copy was inserted as one),
`VersionsInOrder`, `SignedAsShown` and `SignatureHasItsCopy`. `NumberIsFree` gives `VersionsInOrder`,
`JobsAreSound` gives `SignedAsShown`. The refinement needs
`DossierInv` as well: signatures point at documents that are there, at their own
original as long as it is there (`PointersHold`, which makes the code's question for
the column `document_id` the same as the one for the signature); two requests never
carry one signature or link one copy, and what they carry has no copy yet
(`SignersApart`); and what a page shows is the content of a file (`FilesShown`). The
heart is `SignersApart`: it is the unique index that keeps a second request off a
signature, from its insert to its link or its end, and the fresh id of the copy that
keeps it out of another's hands. `SealedContractsStay` rests on the same two
(`SealedKept`): nobody carries a signature that has its copy, so it is not written
again, and a delete begins only with a document no signature names (`DeletersComeFrom`).

`Spares_proofs`, for every set of spare cars and requests and every shift, from
`SparesAssumption`:

| Theorem | Says |
|---|---|
| `InvHolds` | `SparesSpec => []SparesInv` |
| `SparesTyped` | `SparesSpec => []SparesTypeOK` |
| `NeverTwice` | `SparesSpec => []NoCarTwice` |
| `OneAtATime` | `SparesSpec => []OneStandIn` |
| `FlagFollowsBlock` | `SparesSpec => []FlagHasItsBlock` |
| `CustomerKeepsSpare` | `SparesSpec => HandedOverStays` |

*The argument.* `SparesInv` joins types, `InOrder` (rows are written in the order
of their ids), `RoomHeld` (a row is left for everyone who is adding one),
`LookedAt` (a row somebody looked at is written, and was not handed over unseen),
`AllSeen` (who will replace the stand-ins knows all of them but those of `beside`)
and the three properties of states. `FlagHasItsBlock` is inductive beside the types
(`FlagStep`): a step leaves a flag that names no block, or one that has the car or is
`adrift`, or it touches neither the car nor the request that is about to free it.
Lemma `Kinds` splits every
step in two: it changes the status of rows and nothing else about them
(`Gentle`), with a turn of one request, or it adds one row (`Added`).

`RecycleBin_proofs`, for every set of bookings and requests and every number of
records, from `BinAssumption`:

| Theorem | Says |
|---|---|
| `BinInvariance` | `BinSpec => []BinInv` |
| `BinTyped` | `BinSpec => []BinTypeOK` |
| `OneRecordEach` | `BinSpec => []OneWayBack` |

*The argument.* `BinInv` joins types, `RecordsSound`, `RecordLocked` (a claim and
a purge have their record to themselves), `OneDeletes` (one request deletes the
vehicle, while it is there), the two halves of `OneWayBack`, and what makes them
inductive: the copy a request has made (`CopiedTrue`), and later the copy in the
record (`KeptTrue`), is of each booking as its own record says, unless the booking
is `astray`; from the copy to the DELETE the booking is there, and from then to
the restore it is gone, so the copy cannot come back beside it.

`Diary_proofs`, for every calendar - any set of days, with or without the open
end, any times on file - and any number of rentals, from the assumptions of
`Diary`:

| Theorem | Says |
|---|---|
| `DiaryInvariance` | `Spec => []DiaryInv` |
| `DiaryTyped` | `Spec => []TypeOK` |
| `RuleMet` | `Spec => []RefusesExactlyTheClashes` |
| `AnyOrder` | `Spec => []OrderIndependent` |
| `DaysShared` | `Spec => []SharedDayIsATurnover` |

*The argument.* `DiaryInv` says that no two rentals in the diary overlap. What is
compared is rentals two by two (`OverlapIsClash`: the SQL and the rule agree on
any two well-formed periods; `TurnoverDay`: two that share a day without an
overlap end and start on it), so no calendar is special.

`InvoiceInbox_proofs`, for every mailbox, every number of lines and requests of
staff, and any number of failures and restarts, from `InboxAssumption`:

| Theorem | Says |
|---|---|
| `InboxInvariance` | `InboxSpec => []InboxInv` |
| `InboxTyped` | `InboxSpec => []InboxTypeOK` |
| `OneExpenseEach` | `InboxSpec => []BookedOnce` |
| `NothingBookedForFree` | `InboxSpec => []BookedMeansSpent` |
| `NoMailLost` | `InboxSpec => ImplementsPostbox` |

*The argument.* `InboxInv` joins types, `RowsSound` (an item stays one, expenses
are those of an item), `RunSound` (the mail in hand is unseen, and each of its
attachments is on file or still to come; what the run remembers of a file is
still so), `ClerksSound` (the same of a request) and `OneBooks`: whoever writes
expenses for an item that was never crossed is the only one, and the lines from
where it is on have none. Nothing is taken away from items and expenses
(`Grows`), so what anybody remembers of them stays true under everybody else's
steps. The refinement falls out of the same lemmas: each step is a `Record`, a
`Take`, a `GiveUpOn` or a stutter of `Postbox`.

`Transports_proofs`, for every number of requests, stand-in cars, days, transports
and rows, from `TransportsAssumption`:

| Theorem | Says |
|---|---|
| `TransportsInvariance` | `TransportsSpec => []TransportsInv` |
| `TransportsTyped` | `TransportsSpec => []TransportsTypeOK` |
| `LoanersApart` | `TransportsSpec => []NoLoanerTwice` |
| `SparesHaveTransports` | `TransportsSpec => []EverySpareHasItsTransport` |
| `SparesOnTheirDay` | `TransportsSpec => []SpareOnItsDay` |
| `DeliveriesFollow` | `TransportsSpec => []DeliveryFollowsRental` |
| `ClosedStaysClosed` | `TransportsSpec => ClosedTransportStays` |
| `CancelledSparesAreFreed` | `TransportsSpec => CancellingFreesSpare` |

*The argument.* `TransportsInv` joins types, `RequestInv` (of each request: which
transport it is on and that one that met nobody is still on the row it read; what
an update may send; that a stand-in judged to be a live booking, or judged not to be,
still binds at the COMMIT; that its stand-in is one of its own transport),
`RowsInv` (row and stand-in name each other and share their day), `LoanerInv` and
`HireInv`. `LoanerInv` is the heart: between the verdict and the COMMIT a request
holds the lock of the car, and on the days that were judged the car is free, except
for stand-ins of the three kinds named above (`Held`). Another request that books the same car
would have to hold the same lock (`HeldStays`), and what is written is what was
judged (`WrittenIsJudged`). `HireInv` says that unless edits of the rental overlapped
or a delivery came back from the bin there is one delivery at most, and
one request at most between the edit and the sync, which knows what the rental now
wants.

*Proved, and in the runs only through another property:* `VehicleLocked`, which the
verdicts of `VerdictStillHolds` rest on; `StoresWhatItOverwrites`, a part of every
atomic handover (`ImplementsHandovers`); `SignedAsShown`, a part of `Sign` in the
dossier (`ImplementsDossier`).

*Only model-checked:* liveness (`EveryRequestEnds`, `EveryMailHandled`), which is
out of the prover's reach; `PartsTypeOK`, which puts the type invariants of five
modules together, each proved of its own module (`DiaryTyped`, `SparesTyped`,
`TransportsTyped`, `SigningTyped`, `BinTyped`); and the eight violations, which are
counterexamples.

## 6. What is left out

* The pickup reads its reservation twice before it writes (in the route and in
  the storage); the model has one read, the earlier status check being repeated
  by the later one.
* Refusals that only keep an optional action from happening (permissions,
  blacklist, overdue customers, the handover gate B-03, an unanswered early
  pickup) are actions not taken. A revert that is refused because its preview is
  out of date is a choice (`RefuseRevert`), since any column may have changed.
* In `BookingWrites` the vehicle's columns and its row lock, which `Fleet` has;
  in `Fleet` creates, edits and restores. The interaction this leaves out is an
  edit that moves a rental to another vehicle between two steps of its pickup or
  return, which then write the wrong vehicle.
* In `Fleet`: maintenance blocks do not change, so the workshop toggle of a
  vehicle with a block of today is an action not taken (it is in `Spares`); fuel
  levels travel with the odometer; the mileage history, vehicles out of the fleet
  and the driver's readings with a status change (a branch for a status that no
  longer exists).
* Placeholders without a vehicle in `BookingWrites` (they are in `Spares`),
  recurring bookings, price, notes, contract numbers, driver assignments and
  usage periods, which follow a write and do not decide it.
* Handover readings sent along with a create or an edit, clearing a time or a
  reading, and status changes of blocks through the edit route.
* In `BookingWrites` a restore locks the reservation only; the claim of its
  record is in `RecycleBin`, and the row lock alone is enough to keep two
  restores apart.
* In `RecycleBin`: workshop blocks, whose INSERT looks at no vehicle, edits that
  move a booking onto the vehicle, bookings that clash with one that comes back
  (they return cancelled; the periods here do not clash), a revert (which locks
  the vehicle), customers, drivers, expenses, fines and transports in the bin, and
  the files a purge removes.
* In `Spares`: periods (all overlap, so a car that stands in is taken), several
  blocks of one car, the abort that shortens a block
  (`services/abort-planning.ts`), the readings and APK dates of a completion, the
  availability recomputed afterwards (in `Fleet`), mails.
* In `Transports`: the breakdown flag, a transport that changes its own vehicle,
  one of a vehicle that is out on a rental, more than one column per PATCH, the
  collection leg (`syncCollectionLeg`, the same code as the delivery's), costs.
  `syncDeliveryLeg`, the deletion and the cancellation of a rental move or cancel
  a transport and leave its stand-in where it was; the model does the same, and
  the properties name it (`fromRental`).
* In `Fleet`, circles of three requests and more; PostgreSQL breaks those the same
  way.
* In `Signing`: what is in a PDF, mails, uploads, the recycle bin.
* In `InvoiceInbox`: what the scanner reads and the rules of `decide.ts` (any
  outcome is possible), the same invoice from two different files, oversize mail,
  the budget of scans, a deleted expense, requests of staff on an item that is a
  mail. A rescan clears the reason of an item that could not be read, and review
  without a reason is what the import takes for an interrupted booking: the model
  has that, and `BookedOnce` and `BookedMeansSpent` hold all the same.

*Hazards without a property.* The vehicle of a pickup or a return is the one
that was read before the transaction (`database-storage.ts:3308`): it takes the
composition of `BookingWrites` and `Fleet`. An overridden contract number is taken
from another rental before the pickup may be refused (`routes.ts:6150`): contract
numbers are not modelled. Nothing asks whether another customer still has the
vehicle (`lifecycle.ts:764`): no statement of the repository was found that something
does. A reading entered by hand after a pickup is put back by its undoing
(`reservation-revert.ts:331`): readings are names here, without an order, and the
question that is asked when one goes down is not in the model.

*Not modelled at all*, with the reason, are the components `PROJECT.json` marks
`not_modelled`. The largest part of the repository by lines is the client, which
holds no state of the administration: it asks the routes modelled here, and
every decision it makes is made again by them.

## 7. Plan

1. Fleet, second half — the move of a rental between vehicles during a handover,
   vehicles out of and back in the fleet.
2. Customers and transports in the recycle bin; the abort of a block and the
   periods of `Spares`; driver assignments and fiscal periods, which follow the
   rental; contract numbers.
3. Proofs: the composition of `BookingWrites` and `Fleet`, with the order of all four
   kinds of locks; abstract specifications of `Spares` and `Transports`.
