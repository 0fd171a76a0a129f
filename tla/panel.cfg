SPECIFICATION Spec
CONSTANTS
    Width = 2
    Pages = 2
    Builds = {"SSD1306", "SH1106"}
    Frames <- MCFrames
    Rects <- MCRects
INVARIANTS
    FlushShows
    KnownChipIsReady
PROPERTIES
    RestUntouched
