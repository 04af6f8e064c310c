SPECIFICATION Spec
CONSTANTS
    us = us
    gb = gb
    london = london
    york = york
    newyork = newyork
    None = None
    Countries = {us, gb}
    Names = {london, york, newyork}
    Spaced = {newyork}
    Part <- MCPart
    Catalogues <- MCCatalogues
    Scenes <- MCScenes
INVARIANTS
    CommonIfThereIsOne
    ServedWhereOffered
PROPERTIES
    RightCountry
    SearchEnds
