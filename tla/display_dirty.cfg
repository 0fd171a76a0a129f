SPECIFICATION Spec
CONSTANTS
    Width = 3
    Height = 4
    PageRows = 2
    GlyphW = 1
    GlyphH = 2
    XMod = 16
    YMod = 16
    NumLayers = 2
    Drawings <- MCFills
    NoRect = NoRect
PROPERTY
    ChangesAreDirty
