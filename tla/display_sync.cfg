SPECIFICATION Spec
CONSTANTS
    Width = 2
    Height = 4
    PageRows = 2
    GlyphW = 1
    GlyphH = 2
    XMod = 16
    YMod = 16
    NumLayers = 2
    Drawings <- MCDrawings
    NoRect = NoRect
INVARIANTS
    TypeOK
    

    
