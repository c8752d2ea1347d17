------------------------------- MODULE MCParts -------------------------------
(* Five parts of the administration, each looked at on its own: the diary of *)
(* one vehicle, stand-ins and workshop blocks around one rental, the         *)
(* transports of one rental, the signing of its contract, and the recycle    *)
(* bin of one vehicle.  A behaviour is one of a single part; the others are  *)
(* as they began and stay so.                                                *)
EXTENDS Diary, Spares, Signing, Transports, RecycleBin, TLC
CONSTANTS r1, r2, x1, x2, k1, h1, h2

VARIABLE part

(* Four days and the open end, two times of day and the NULL column.         *)
MCDays  == 1..4 \cup {OpenEnd}
MCTimes == {NoTime, 1, 2}

(* Three rows for the requests that create stand-ins, two for the workshop.  *)
MCShifts ==
    { [routes |-> {"plan", "assign", "hold", "fill"}, rows |-> 3],
      [routes |-> {"assign", "complete", "delete", "check_in", "reopen",
                   "bring_back"}, rows |-> 2] }

(* Every two of the transport's screens that touch one of its columns, and   *)
(* the rental and the recycle bin against them.                              *)
MCPlans ==
    { [routes |-> {"plan", "status", "day"}, legs |-> 1, spares |-> 1],
      [routes |-> {"plan", "status", "want", "handover"}, legs |-> 1, spares |-> 1],
      [routes |-> {"plan", "want", "handover"}, legs |-> 1, spares |-> 3],
      [routes |-> {"plan", "car"}, legs |-> 2, spares |-> 2],
      [routes |-> {"plan", "day"}, legs |-> 2, spares |-> 2],
      [routes |-> {"plan", "car", "day"}, legs |-> 1, spares |-> 1],
      [routes |-> {"plan", "day", "handover"}, legs |-> 1, spares |-> 2],
      [routes |-> {"plan", "delete", "restore"}, legs |-> 2, spares |-> 2],
      [routes |-> {"rental", "rental_off"}, legs |-> 2, spares |-> 1],
      [routes |-> {"rental", "rental_off", "status"}, legs |-> 1, spares |-> 1],
      [routes |-> {"rental", "delete", "restore"}, legs |-> 1, spares |-> 1],
      [routes |-> {"rental", "want"}, legs |-> 1, spares |-> 1],
      [routes |-> {"rental", "day"}, legs |-> 1, spares |-> 1] }

ResavedOnly == { [routes |-> {"plan", "status", "day"}, legs |-> 1, spares |-> 2] }

(* r1 and r2 are the requests in flight of every part, x1 and x2 what they   *)
(* work on: the stand-in cars of the spares, the documents of the signing.   *)
Symmetric == Permutations({r1, r2}) \cup Permutations({x1, x2})

PartsInit ==
    /\ part \in {"diary", "spares", "transports", "signing", "bin"}
    /\ Init /\ SparesInit /\ TransportsInit /\ SigningInit /\ BinInit
    /\ part # "spares" => shift = (CHOOSE s \in Shifts : TRUE) /\ block = "none"
    /\ part # "transports" => plan = CHOOSE p \in Plans : TRUE
    /\ part # "bin" => \A b \in Bookings : booking[b] = Unbooked

notDiary == <<sparesVars, transportVars, signingVars, binVars>>

OfDiary(step) ==
    part = "diary" /\ step /\ UNCHANGED <<part, notDiary>>
OfSpares(step) ==
    part = "spares" /\ step
    /\ UNCHANGED <<part, vars, transportVars, signingVars, binVars>>
OfTransports(step) ==
    part = "transports" /\ step
    /\ UNCHANGED <<part, vars, sparesVars, signingVars, binVars>>
OfSigning(step) ==
    part = "signing" /\ step
    /\ UNCHANGED <<part, vars, sparesVars, transportVars, binVars>>
OfBin(step) ==
    part = "bin" /\ step
    /\ UNCHANGED <<part, vars, sparesVars, transportVars, signingVars>>

PartsNext ==
    \/ OfDiary(Next) \/ OfSpares(SparesNext) \/ OfTransports(TransportsNext)
    \/ OfSigning(SigningNext) \/ OfBin(BinNext)

PartsSpec == PartsInit /\ [][PartsNext]_<<part, vars, notDiary>>

TransportsOnly == PartsSpec /\ part = "transports"
BinOnly        == PartsSpec /\ part = "bin"
SigningOnly    == PartsSpec /\ part = "signing"

(* Every part keeps its rows, locks and requests well typed.                 *)
PartsTypeOK == TypeOK /\ SparesTypeOK /\ TransportsTypeOK /\ SigningTypeOK /\ BinTypeOK
=============================================================================
