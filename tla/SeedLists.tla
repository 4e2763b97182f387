------------------------------ MODULE SeedLists -------------------------------
(***************************************************************************)
(* The lists the database is seeded from: who is in them, and what refers  *)
(* to what.  The lists refer to each other by e-mail address, by unit name *)
(* within a company, by employee code and by the last digits of an id.     *)
(* Names, addresses, weights and prices are left out.                      *)
(***************************************************************************)
EXTENDS Naturals

masarat == "masarat"
qadmous == "qadmous"
trojan == "trojan"

SEEDED_TENANTS == {
  <<masarat, "admin@fastship">>, <<qadmous, "admin@quickdelivery">>,
  <<trojan, "admin@globalfreight">>}

\* The plans, and the one the companies subscribe to.
SUBSCRIPTION_PLANS == {1, 2, 3}

PLAN_ID == 3

SEEDED_ROLES == {"Administrator", "Branch Manager", "Driver"}

SEEDED_USERS == {
  "owner@logisticsplatform", "admin@fastship", "admin@quickdelivery", "admin@globalfreight",
  "driver@fastship", "employee@fastship", "driver@quickdelivery", "employee@quickdelivery",
  "driver@globalfreight", "john.doe", "jane.smith", "omar.najjar", "hiba.atri",
  "bassam.qabbani", "ghadah.hamdan", "tareq.atasi", "rami.kassar", "dina.halabi",
  "fadi.sabbagh", "lina.barakat", "hassan.nabulsi", "maya.qasem", "walid.hariri",
  "salma.kilani", "driver2", "driver3", "driver4", "driver5"}

\* A location, and those that are in it.
SOUTHERN_LOCATIONS == {
  <<"null", {"SYRIA"}>>,
  <<"SYRIA", {"DAMASCUS_GOV", "RIF_DIMASHQ_GOV", "DARAA_GOV", "SWEIDA_GOV", "QUNEITRA_GOV"}>>,
  <<"DAMASCUS_GOV", {"DAMASCUS"}>>,
  <<"DAMASCUS", {"ABU_RUMMANEH", "MEZZEH", "JARAMANA", "ZABLATANI", "SHAALAN"}>>,
  <<"RIF_DIMASHQ_GOV", {"ADRA"}>>, <<"ADRA", {"ADRA_INDUSTRIAL"}>>, <<"DARAA_GOV", {"DARAA"}>>,
  <<"DARAA", {"DARAA_SABEEL"}>>, <<"SWEIDA_GOV", {"SWEIDA"}>>, <<"SWEIDA", {"SWEIDA_MAHATTA"}>>,
  <<"QUNEITRA_GOV", {"QUNEITRA"}>>, <<"QUNEITRA", {"BAATH"}>>}

NORTHERN_LOCATIONS == {
  <<"SYRIA", {"ALEPPO_GOV", "IDLIB_GOV", "LATAKIA_GOV", "TARTOUS_GOV"}>>,
  <<"ALEPPO_GOV", {"ALEPPO"}>>, <<"ALEPPO", {"AZIZIEH", "ALEPPO_FURQAN"}>>,
  <<"IDLIB_GOV", {"IDLIB"}>>, <<"IDLIB", {"IDLIB_DAI"}>>, <<"LATAKIA_GOV", {"LATAKIA"}>>,
  <<"LATAKIA", {"MASHROU_10", "LATAKIA_SHEIKH_DAHIR"}>>, <<"TARTOUS_GOV", {"TARTOUS"}>>,
  <<"TARTOUS", {"TARTOUS_CORNICHE", "TARTOUS_MINA"}>>}

EASTERN_LOCATIONS == {
  <<"SYRIA", {"HOMS_GOV", "HAMA_GOV", "DEIR_EZ_ZOR_GOV", "RAQQA_GOV", "HASAKAH_GOV"}>>,
  <<"HOMS_GOV", {"HOMS"}>>, <<"HOMS", {"INSHAAT", "HOMS_WAER"}>>, <<"HAMA_GOV", {"HAMA"}>>,
  <<"HAMA", {"HAMA_HAMIDIYE"}>>, <<"DEIR_EZ_ZOR_GOV", {"DEIR_EZ_ZOR"}>>,
  <<"DEIR_EZ_ZOR", {"QUSOUR", "DEIR_JOURA"}>>, <<"RAQQA_GOV", {"RAQQA"}>>,
  <<"RAQQA", {"RAQQA_THAWRA"}>>, <<"HASAKAH_GOV", {"HASAKAH"}>>, <<"HASAKAH", {"HASAKAH_GWEIRAN"}>>}

SEEDED_GLOBAL_LOCATIONS == SOUTHERN_LOCATIONS \cup NORTHERN_LOCATIONS \cup EASTERN_LOCATIONS

MASARAT_ZONES == {"DAMASCUS", "NORTH", "COAST", "CENTER", "SOUTH", "EAST"}

QADMOUS_ZONES == {"DAMASCUS", "NORTH", "COAST", "CENTER"}

TROJAN_ZONES == {"DAMASCUS", "NORTH", "CENTER", "EAST"}

\* Pairs of zones with a price, the same both ways.
PAIR_BASE_PRICE == {
  {"DAMASCUS", "NORTH"}, {"DAMASCUS", "COAST"}, {"DAMASCUS", "CENTER"}, {"DAMASCUS", "SOUTH"},
  {"DAMASCUS", "EAST"}, {"NORTH", "COAST"}, {"NORTH", "CENTER"}, {"NORTH", "SOUTH"},
  {"NORTH", "EAST"}, {"COAST", "CENTER"}, {"COAST", "SOUTH"}, {"COAST", "EAST"},
  {"CENTER", "SOUTH"}, {"CENTER", "EAST"}, {"SOUTH", "EAST"}}

\* branchesForTenant: a unit, its parent, its zone, the locations it covers.
MASARAT_UNITS == {
  <<"HUB", "none", "DAMASCUS",
     {"DAMASCUS_GOV", "DAMASCUS", "ABU_RUMMANEH", "ZABLATANI", "SHAALAN"}>>,
  <<"WAREHOUSE", "HUB", "DAMASCUS", {"RIF_DIMASHQ_GOV", "ADRA", "ADRA_INDUSTRIAL", "MEZZEH"}>>,
  <<"JARAMANA", "HUB", "DAMASCUS", {"JARAMANA", "DAMASCUS"}>>,
  <<"ALEPPO", "HUB", "NORTH", {"ALEPPO_GOV", "ALEPPO", "AZIZIEH"}>>,
  <<"ALEPPO_WH", "HUB", "NORTH", {"ALEPPO", "ALEPPO_FURQAN"}>>,
  <<"IDLIB", "HUB", "NORTH", {"IDLIB_GOV", "IDLIB", "IDLIB_DAI"}>>,
  <<"LATAKIA", "HUB", "COAST", {"LATAKIA_GOV", "LATAKIA", "MASHROU_10", "LATAKIA_SHEIKH_DAHIR"}>>,
  <<"TARTOUS", "HUB", "COAST", {"TARTOUS_GOV", "TARTOUS", "TARTOUS_CORNICHE", "TARTOUS_MINA"}>>,
  <<"HOMS", "HUB", "CENTER", {"HOMS_GOV", "HOMS", "INSHAAT", "HOMS_WAER"}>>,
  <<"HAMA", "HUB", "CENTER", {"HAMA_GOV", "HAMA", "HAMA_HAMIDIYE"}>>,
  <<"DARAA", "HUB", "SOUTH", {"DARAA_GOV", "DARAA", "DARAA_SABEEL"}>>,
  <<"SWEIDA", "HUB", "SOUTH", {"SWEIDA_GOV", "SWEIDA", "SWEIDA_MAHATTA"}>>,
  <<"QUNEITRA", "HUB", "SOUTH", {"QUNEITRA_GOV", "QUNEITRA", "BAATH"}>>,
  <<"DEIR", "HUB", "EAST", {"DEIR_EZ_ZOR_GOV", "DEIR_EZ_ZOR", "QUSOUR", "DEIR_JOURA"}>>,
  <<"RAQQA", "HUB", "EAST", {"RAQQA_GOV", "RAQQA", "RAQQA_THAWRA"}>>,
  <<"HASAKAH", "HUB", "EAST", {"HASAKAH_GOV", "HASAKAH", "HASAKAH_GWEIRAN"}>>}

QADMOUS_UNITS == {
  <<"HUB", "none", "COAST", {"TARTOUS_GOV", "TARTOUS", "TARTOUS_CORNICHE", "TARTOUS_MINA"}>>,
  <<"WAREHOUSE", "HUB", "COAST", {"TARTOUS", "TARTOUS_MINA"}>>,
  <<"LATAKIA", "HUB", "COAST", {"LATAKIA_GOV", "LATAKIA", "MASHROU_10", "LATAKIA_SHEIKH_DAHIR"}>>,
  <<"DAMASCUS", "HUB", "DAMASCUS", {"DAMASCUS_GOV", "DAMASCUS", "ABU_RUMMANEH", "SHAALAN"}>>,
  <<"JARAMANA", "HUB", "DAMASCUS", {"JARAMANA", "DAMASCUS"}>>,
  <<"ALEPPO", "HUB", "NORTH",
     {"ALEPPO_GOV", "ALEPPO", "AZIZIEH", "ALEPPO_FURQAN", "IDLIB_GOV", "IDLIB"}>>,
  <<"HOMS", "HUB", "CENTER", {"HOMS_GOV", "HOMS", "INSHAAT"}>>,
  <<"HAMA", "HUB", "CENTER", {"HAMA_GOV", "HAMA", "HAMA_HAMIDIYE"}>>}

TROJAN_UNITS == {
  <<"HUB", "none", "EAST", {"DEIR_EZ_ZOR_GOV", "DEIR_EZ_ZOR", "QUSOUR", "DEIR_JOURA"}>>,
  <<"WAREHOUSE", "HUB", "EAST", {"DEIR_EZ_ZOR", "QUSOUR"}>>,
  <<"DAMASCUS", "HUB", "DAMASCUS",
     {"DAMASCUS_GOV", "DAMASCUS", "ABU_RUMMANEH", "ZABLATANI", "JARAMANA"}>>,
  <<"ALEPPO", "HUB", "NORTH", {"ALEPPO_GOV", "ALEPPO", "AZIZIEH"}>>,
  <<"RAQQA", "HUB", "EAST", {"RAQQA_GOV", "RAQQA", "RAQQA_THAWRA"}>>,
  <<"HASAKAH", "HUB", "EAST", {"HASAKAH_GOV", "HASAKAH", "HASAKAH_GWEIRAN"}>>,
  <<"HOMS", "HUB", "CENTER", {"HOMS_GOV", "HOMS", "INSHAAT", "HAMA"}>>}

\* Company, user, code, unit.
EMPLOYEES == {
  <<masarat, "admin@fastship", "EMP-100", "HUB">>,
  <<masarat, "employee@fastship", "EMP-101", "ALEPPO">>,
  <<masarat, "driver@fastship", "EMP-102", "HUB">>,
  <<masarat, "rami.kassar", "EMP-103", "HUB">>,
  <<masarat, "dina.halabi", "EMP-104", "WAREHOUSE">>,
  <<masarat, "fadi.sabbagh", "EMP-105", "JARAMANA">>,
  <<masarat, "lina.barakat", "EMP-106", "LATAKIA">>,
  <<masarat, "hassan.nabulsi", "EMP-107", "HOMS">>,
  <<masarat, "maya.qasem", "EMP-108", "DARAA">>,
  <<masarat, "walid.hariri", "EMP-109", "DEIR">>,
  <<masarat, "salma.kilani", "EMP-110", "HUB">>, <<masarat, "driver2", "EMP-111", "HOMS">>,
  <<masarat, "driver3", "EMP-112", "LATAKIA">>, <<masarat, "driver4", "EMP-113", "DARAA">>,
  <<masarat, "driver5", "EMP-114", "ALEPPO">>,
  <<qadmous, "admin@quickdelivery", "EMP-200", "HUB">>,
  <<qadmous, "employee@quickdelivery", "EMP-201", "ALEPPO">>,
  <<qadmous, "driver@quickdelivery", "EMP-202", "HUB">>,
  <<trojan, "admin@globalfreight", "EMP-300", "HUB">>,
  <<trojan, "driver@globalfreight", "EMP-301", "DAMASCUS">>}

\* User, companies.
CUSTOMERS == {
  <<"john.doe", {masarat, qadmous}>>, <<"jane.smith", {masarat}>>,
  <<"omar.najjar", {masarat, trojan}>>, <<"hiba.atri", {qadmous, trojan}>>,
  <<"bassam.qabbani", {masarat}>>, <<"ghadah.hamdan", {masarat, qadmous}>>,
  <<"tareq.atasi", {masarat}>>}

\* Request, company, customer, locations, units, and the shipment (0: none yet).
OLD_SHIPMENTS == {
  <<801, masarat, "john.doe", "ABU_RUMMANEH", "AZIZIEH", "HUB", "ALEPPO", 821>>,
  <<804, masarat, "jane.smith", "MEZZEH", "MASHROU_10", "WAREHOUSE", "LATAKIA", 824>>,
  <<805, masarat, "omar.najjar", "AZIZIEH", "ABU_RUMMANEH", "ALEPPO", "HUB", 0>>,
  <<802, qadmous, "john.doe", "TARTOUS_CORNICHE", "INSHAAT", "HUB", "HOMS", 822>>,
  <<803, trojan, "hiba.atri", "QUSOUR", "ABU_RUMMANEH", "HUB", "DAMASCUS", 823>>}

NEW_SHIPMENTS == {
  <<830, masarat, "john.doe", "ABU_RUMMANEH", "MASHROU_10", "HUB", "LATAKIA", 870>>,
  <<831, masarat, "bassam.qabbani", "ABU_RUMMANEH", "AZIZIEH", "HUB", "ALEPPO", 871>>,
  <<832, masarat, "ghadah.hamdan", "INSHAAT", "ABU_RUMMANEH", "LATAKIA", "HUB", 872>>,
  <<833, masarat, "tareq.atasi", "AZIZIEH", "MEZZEH", "ALEPPO", "WAREHOUSE", 873>>,
  <<834, masarat, "john.doe", "MEZZEH", "INSHAAT", "WAREHOUSE", "LATAKIA", 874>>,
  <<835, masarat, "jane.smith", "MEZZEH", "AZIZIEH", "HUB", "ALEPPO", 875>>,
  <<836, qadmous, "ghadah.hamdan", "TARTOUS_CORNICHE", "INSHAAT", "HUB", "HOMS", 876>>}

SHIPMENTS == OLD_SHIPMENTS \cup NEW_SHIPMENTS

EXTRA_SHIPMENTS == {
  <<837, masarat, "john.doe", "ABU_RUMMANEH", "INSHAAT", "HUB", "HOMS", 880>>,
  <<838, masarat, "bassam.qabbani", "JARAMANA", "DARAA_SABEEL", "JARAMANA", "DARAA", 881>>,
  <<839, masarat, "ghadah.hamdan", "ZABLATANI", "QUSOUR", "HUB", "DEIR", 882>>,
  <<840, masarat, "jane.smith", "JARAMANA", "AZIZIEH", "JARAMANA", "ALEPPO", 883>>,
  <<841, masarat, "john.doe", "ADRA_INDUSTRIAL", "TARTOUS_CORNICHE", "WAREHOUSE", "TARTOUS", 884>>,
  <<842, masarat, "tareq.atasi", "INSHAAT", "AZIZIEH", "HOMS", "ALEPPO", 885>>,
  <<843, masarat, "hiba.atri", "MASHROU_10", "ABU_RUMMANEH", "LATAKIA", "HUB", 886>>,
  <<844, masarat, "omar.najjar", "DARAA_SABEEL", "DAMASCUS", "DARAA", "HUB", 887>>,
  <<845, masarat, "john.doe", "QUSOUR", "SHAALAN", "DEIR", "HUB", 888>>,
  <<846, masarat, "bassam.qabbani", "RAQQA", "MEZZEH", "RAQQA", "WAREHOUSE", 889>>,
  <<847, masarat, "ghadah.hamdan", "HAMA", "LATAKIA", "HAMA", "LATAKIA", 890>>,
  <<848, masarat, "jane.smith", "SWEIDA", "JARAMANA", "SWEIDA", "JARAMANA", 891>>,
  <<849, masarat, "john.doe", "IDLIB", "ABU_RUMMANEH", "IDLIB", "HUB", 892>>,
  <<850, masarat, "tareq.atasi", "HASAKAH", "AZIZIEH", "HASAKAH", "ALEPPO", 893>>,
  <<851, qadmous, "hiba.atri", "TARTOUS_CORNICHE", "ABU_RUMMANEH", "HUB", "DAMASCUS", 894>>,
  <<852, qadmous, "john.doe", "ABU_RUMMANEH", "AZIZIEH", "DAMASCUS", "ALEPPO", 895>>,
  <<853, trojan, "hiba.atri", "QUSOUR", "INSHAAT", "HUB", "HOMS", 896>>,
  <<854, trojan, "omar.najjar", "ZABLATANI", "AZIZIEH", "DAMASCUS", "ALEPPO", 897>>}

\* The request any company may quote: company, units.
MARKETPLACE_ROUTES == {
  <<masarat, "JARAMANA", "ALEPPO">>, <<qadmous, "JARAMANA", "ALEPPO">>,
  <<trojan, "DAMASCUS", "ALEPPO">>}

\* Company, shipment, status.
INVOICES == {
  <<masarat, 821, "PAID">>, <<masarat, 824, "PAID">>, <<qadmous, 822, "UNPAID">>,
  <<masarat, 871, "PAID">>, <<masarat, 870, "UNPAID">>, <<masarat, 873, "PAID">>}

\* Company, vehicle, driver.
VEHICLES == {
  <<masarat, 1000, "driver@fastship">>, <<masarat, 1004, "driver2">>,
  <<masarat, 1005, "driver3">>, <<masarat, 1006, "driver4">>,
  <<masarat, 1007, "driver5">>, <<masarat, 1003, "none">>, <<masarat, 1008, "none">>,
  <<qadmous, 1001, "driver@quickdelivery">>, <<trojan, 1002, "driver@globalfreight">>}

\* Parcel, shipment.
PARCELS == {
  <<1101, 821>>, <<1102, 821>>, <<1107, 824>>, <<1103, 822>>, <<1104, 822>>, <<1105, 823>>,
  <<1110, 870>>, <<1111, 871>>, <<1112, 871>>, <<1113, 872>>, <<1114, 873>>, <<1115, 874>>,
  <<1116, 876>>}

EXTRA_PARCELS == {
  <<1117, 880>>, <<1118, 881>>, <<1119, 882>>, <<1120, 883>>, <<1121, 884>>, <<1122, 885>>,
  <<1123, 886>>, <<1124, 887>>, <<1125, 888>>, <<1126, 889>>, <<1127, 890>>, <<1128, 891>>,
  <<1129, 892>>, <<1130, 893>>, <<1131, 894>>, <<1132, 895>>, <<1133, 896>>, <<1134, 897>>,
  <<1135, 880>>, <<1136, 885>>, <<1137, 881>>, <<1138, 882>>, <<1139, 886>>, <<1140, 888>>,
  <<1141, 894>>, <<1142, 884>>, <<1143, 891>>}

\* Trip, company, driver's code, units, status.
trips == {
  <<1401, masarat, "EMP-114", "HUB", "ALEPPO", "SCHEDULED">>,
  <<1250, masarat, "EMP-112", "HUB", "LATAKIA", "SCHEDULED">>,
  <<1403, masarat, "EMP-113", "HUB", "DARAA", "SCHEDULED">>,
  <<1201, masarat, "EMP-102", "HUB", "ALEPPO", "IN_PROGRESS">>,
  <<1405, masarat, "EMP-111", "HOMS", "ALEPPO", "IN_PROGRESS">>,
  <<1406, qadmous, "EMP-202", "HUB", "HOMS", "IN_PROGRESS">>,
  <<1407, trojan, "EMP-301", "HUB", "DAMASCUS", "IN_PROGRESS">>,
  <<1252, masarat, "EMP-111", "HUB", "HOMS", "COMPLETED">>,
  <<1410, masarat, "EMP-114", "ALEPPO", "HUB", "COMPLETED">>,
  <<1411, trojan, "EMP-301", "RAQQA", "DAMASCUS", "COMPLETED">>,
  <<1412, qadmous, "EMP-202", "HOMS", "HUB", "COMPLETED">>}

\* Manifest, company, units, trip (0: none yet), parcels.
openManifests == {
  <<1501, masarat, "HUB", "IDLIB", 0, {1129}>>,
  <<1502, masarat, "HUB", "SWEIDA", 0, {1128}>>,
  <<1503, masarat, "JARAMANA", "HAMA", 0, {1127}>>,
  <<1504, qadmous, "HUB", "HAMA", 0, {1104}>>,
  <<1505, trojan, "DAMASCUS", "RAQQA", 0, {1134}>>}

readyManifests == {
  <<1506, masarat, "HUB", "HASAKAH", 0, {1130}>>,
  <<1507, masarat, "WAREHOUSE", "TARTOUS", 0, {1121, 1142}>>,
  <<1508, masarat, "LATAKIA", "HUB", 0, {1123}>>,
  <<1509, qadmous, "DAMASCUS", "ALEPPO", 0, {1132}>>,
  <<1510, trojan, "HUB", "HOMS", 0, {1133}>>}

assignedManifests == {
  <<1511, masarat, "HUB", "ALEPPO", 1401, {1120}>>,
  <<1512, masarat, "HUB", "ALEPPO", 1401, {1110}>>,
  <<1513, masarat, "HUB", "LATAKIA", 1250, {1115}>>,
  <<1514, masarat, "HUB", "LATAKIA", 1250, {1139}>>}

loadingManifests == {
  <<1515, masarat, "HUB", "DARAA", 1403, {1118}>>,
  <<1516, masarat, "HUB", "DARAA", 1403, {1137}>>,
  <<1517, masarat, "JARAMANA", "DARAA", 1403, {1124}>>}

inTransitManifests == {
  <<1211, masarat, "HUB", "ALEPPO", 1201, {1101, 1102, 1111}>>,
  <<1518, masarat, "HUB", "ALEPPO", 1201, {1112, 1119}>>,
  <<1519, masarat, "HUB", "ALEPPO", 1201, {1138}>>,
  <<1520, masarat, "HOMS", "ALEPPO", 1405, {1122}>>,
  <<1521, qadmous, "HUB", "HOMS", 1406, {1116, 1131}>>,
  <<1522, qadmous, "HUB", "HOMS", 1406, {1141}>>,
  <<1523, trojan, "HUB", "DAMASCUS", 1407, {1105}>>}

completedManifests == {
  <<1253, masarat, "HUB", "HOMS", 1252, {1122}>>,
  <<1524, masarat, "HUB", "HOMS", 1252, {1117, 1135}>>,
  <<1525, masarat, "ALEPPO", "HUB", 1410, {1114}>>,
  <<1526, masarat, "ALEPPO", "HUB", 1410, {1113}>>,
  <<1527, trojan, "RAQQA", "DAMASCUS", 1411, {1126}>>,
  <<1528, qadmous, "HOMS", "HUB", 1412, {1103}>>}

manifests ==
  openManifests \cup readyManifests \cup assignedManifests \cup loadingManifests \cup
  inTransitManifests \cup completedManifests
===============================================================================
