--------------------------- MODULE MCCatalogSync ---------------------------
(* A category, a category inside it, and a product in the inner one.       *)
EXTENDS CatalogSync

TwoCategories == {"food", "cake"}
OneProduct == {"tart"}
InnerHome == [i \in {"food", "cake", "tart"} |->
                CASE i = "food" -> "none" [] i = "cake" -> "food" [] i = "tart" -> "cake"]
=============================================================================
