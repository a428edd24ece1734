---------------------------- MODULE LibraryCalls ----------------------------
(* The pure functions of the library, one call at a time.                  *)
EXTENDS Int64, Calendar, Strings, Stdlib, Ctype, Scanf

NumberCalls == Int64Next \/ StdlibNext
TimeCalls == CalendarNext
TextCalls == StringsNext \/ CtypeNext
FormatCalls == PrintfNext \/ ScanfNext
============================================================================
