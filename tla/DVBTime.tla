------------------------------ MODULE DVBTime ------------------------------
(***************************************************************************)
(* dvb.go: dates as Modified Julian Days (MJD), and times of day and       *)
(* durations as binary coded decimals.                                     *)
(*                                                                         *)
(* The code computes with float64; the same values are computed here with  *)
(* integers, multiplied by the powers of ten that its constants need.  A   *)
(* date is <<year, month, day>>, the year counted from 1900 as the code    *)
(* does.  int() truncates, which for the positive values here is \div.     *)
(***************************************************************************)
EXTENDS Integers, Sequences, FiniteSets

(* int(float64(n) * 365.25) and int(float64(n) * 30.6001). *)
Years(n) == (n * 36525) \div 100
Months(n) == (n * 306001) \div 10000

-----------------------------------------------------------------------------
(* Durations: hours, minutes and seconds, one byte each. *)

dvbDurationByteRepresentation(n) == ((n \div 10) * 16 + (n % 10)) % 256

parseDVBDurationByte(b) == (b \div 16) * 10 + (b % 16)

(* uint8 of the hours; s is the duration in seconds. *)
writeDVBDurationSeconds(s) ==
  <<dvbDurationByteRepresentation((s \div 3600) % 256),
    dvbDurationByteRepresentation((s \div 60) % 60),
    dvbDurationByteRepresentation(s % 60)>>

parseDVBDurationSeconds(bs) ==
  parseDVBDurationByte(bs[1]) * 3600 + parseDVBDurationByte(bs[2]) * 60
    + parseDVBDurationByte(bs[3])

writeDVBDurationMinutes(s) ==
  <<dvbDurationByteRepresentation((s \div 3600) % 256),
    dvbDurationByteRepresentation((s \div 60) % 60)>>

parseDVBDurationMinutes(bs) ==
  parseDVBDurationByte(bs[1]) * 3600 + parseDVBDurationByte(bs[2]) * 60

-----------------------------------------------------------------------------
(* Dates. *)

(* January and February count as months 13 and 14 of the year before. *)
MJDWritten_marchLate(date) ==
  LET l == IF date[2] <= 3 THEN 1 ELSE 0
  IN  (14956 + date[3] + Years(date[1] - l) + Months(date[2] + 1 + l * 12)) % 65536

MJDWritten(date) ==
  LET l == IF date[2] <= 2 THEN 1 ELSE 0
  IN  (14956 + date[3] + Years(date[1] - l) + Months(date[2] + 1 + l * 12)) % 65536

DateComputed(mjd) ==
  LET yt == (100 * mjd - 1507820) \div 36525
      mt == ((mjd - Years(yt)) * 10000 - 149561000) \div 306001
      d == mjd - 14956 - Years(yt) - Months(mt)
      k == IF mt \in {14, 15} THEN 1 ELSE 0
  IN  <<yt + k, mt - 1 - k * 12, d>>

(* time.Parse("06-01-02", ...) of year, month and day printed with "%d":   *)
(* every field must have two digits, two digits of a year below 69 are in  *)
(* this century, and anything else is an error that parseDVBTime does not  *)
(* look at, with the zero time, in the year 1; years count from 1900.      *)
NoTime == <<-1899, 1, 1>>

TwoDigits(n) == n \in 10..99

TimeParsed(date) ==
  IF \A k \in 1..3 : TwoDigits(date[k])
  THEN [date EXCEPT ![1] = IF @ < 69 THEN @ + 100 ELSE @]
  ELSE NoTime

(* s is the time since midnight, t.Sub(t.Truncate(24 * time.Hour)). *)
writeDVBTime(date, s) == <<MJDWritten(date)>> \o writeDVBDurationSeconds(s)

parseDVBTime(bs) ==
  [computed |-> DateComputed(bs[1]), date |-> TimeParsed(DateComputed(bs[1])),
   second |-> parseDVBDurationSeconds(Tail(bs))]

-----------------------------------------------------------------------------
(* The calendar, for reference: the days before a date since 1900-01-01,   *)
(* which is MJD 15020.  1900 had no leap day.                              *)

IsLeap(y) == y % 4 = 0 /\ y # 0

DaysIn(y, m) ==
  CASE m \in {4, 6, 9, 11} -> 30
    [] m = 2 -> IF IsLeap(y) THEN 29 ELSE 28
    [] OTHER -> 31

DaysOfMonthsBefore(y, m) ==
  LET before[k \in 1..12] == IF k = 1 THEN 0 ELSE before[k - 1] + DaysIn(y, k - 1)
  IN  before[m]

LeapYearsBefore == [y \in 0..138 |-> Cardinality({z \in 0..(y - 1) : IsLeap(z)})]

MJD(date) ==
  15020 + 365 * date[1] + LeapYearsBefore[date[1]]
    + DaysOfMonthsBefore(date[1], date[2]) + date[3] - 1

(* From the first day the formulas are given for, 1900-03-01, to the last  *)
(* day that 16 bits can express, 2038-04-22.                               *)
Dates ==
  {date \in (0..138) \X (1..12) \X (1..31) :
     date[3] <= DaysIn(date[1], date[2]) /\ MJD(date) \in 15079..65535}

=============================================================================
