CONSTANTS
    ID = {b1, b2, b3}
    Names = {t1, t2}
    Detail = {d1}
    NoLabels = NoLabels
SYMMETRY Symmetry
SPECIFICATION Spec
INVARIANTS
    OneSeriesPerBug
    GaugeIsExact
    ScrapeMissesAtMostOne
