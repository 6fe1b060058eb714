---------------------------------- MODULE MCWire ----------------------------------
(* An instance of Wire for TLC. *)
EXTENDS Wire

Row(slot, state, temp, kept) == [slot |-> slot, state |-> state, temp |-> temp, kept |-> kept]

\* Two records make a whole status, a field given twice, values at the edge
\* of their range, and more records than the limit.
MCReports == {
  <<AnItem("device", 1), AnItem("wifi", -60)>>,
  <<AnItem("fuel_level", 3), AnItem("fuel_percent", 100)>>,
  <<AnItem("fuel_level", 2), AnItem("fuel_level", 5)>>,
  <<AnItem("battery", 101), AnItem("fuel_percent", 101), AnItem("charging", FALSE), AnItem("device", 9)>>}

\* Rows of one number, numbers beyond the slots, rows the hub cut short before
\* or after their number, codes without a name, readings that mean there is
\* none.
MCStatuses == {
  <<AnItem("mode", 1), AnItem("actual", -32768), AnItem("target", 1000)>>,
  <<AnItem("probe", Row(0, 5, -5, 10)), AnItem("probe", Row(0, 1, 60, 10))>>,
  <<AnItem("probe", Row(2, 6, 0, 2)), AnItem("probe", Row(2, 11, 60, 10)), AnItem("mode", 200)>>,
  <<AnItem("actual", 7), AnItem("display", -32768), AnItem("actual", -32768)>>,
  <<AnItem("probe", Row(1, 2, -32768, 10)), AnItem("timer", Row(0, 5, 0, 6))>>,
  <<AnItem("probe", Row(15, 5, 40, 8)), AnItem("burner", Row(0, 2, 0, 6)), AnItem("display", 900)>>,
  <<AnItem("probe", Row(16, 5, 40, 10)), AnItem("whole_degrees", 90), AnItem("display", 905)>>,
  <<AnItem("mode", 0), AnItem("actual", 20), AnItem("timer", Row(3, 1, 0, 6)), AnItem("burner", Row(0, 2, 0, 6))>>}

=============================================================================
