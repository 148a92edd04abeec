---------------------------- MODULE MCRecurring ------------------------------
(* Recurring over two months around a New Year and a leap day. *)
EXTENDS Recurring

Anchor(form, n, month, day_, cycle, from) ==
  [form |-> form, n |-> n, month |-> month, day |-> day_, cycle |-> cycle, base |-> from]

Template(anchor_, catchup_, created_) == [anchor |-> anchor_, catchup |-> catchup_, created |-> created_]

NewYearsEve == DayOf(2023, 12, 31)

MCTemplates ==
  {Template(Anchor("month_end", 0, 1, 1, 1, 0), "all", NewYearsEve),
   Template(Anchor("month_start", 0, 1, 1, 2, 2024), "next", NewYearsEve),
   Template(Anchor("quarter_end_plus", 31, 1, 1, 1, 0), "all", NoDay),
   Template(Anchor("fixed", 0, 2, 29, 2, 2023), "all", NewYearsEve),
   Template(Anchor("fixed", 0, 2, 29, 1, 0), "next", NewYearsEve),
   Template(Anchor("T_before", 5, 1, 5, 1, 0), "all", NewYearsEve),
   Template(Anchor("months", 3, 1, 1, 1, 0), "next", NoDay),
   Template(Anchor("days", 90, 1, 1, 1, 0), "next", NoDay)}

MCDays == {NewYearsEve, DayOf(2024, 1, 31), DayOf(2024, 2, 29)}
==============================================================================
